---- MODULE Spec2Model ----
(***************************************************************************)
(* A model of the valuation and time-series reconciliation engine of       *)
(* scripts/update_data.py: the ValuationExtractor (numeric coercion gate,  *)
(* enterprise value, trailing P/E, TTM aggregation, range validation, the  *)
(* comprehensive record), the CurrencyHandler and the performance          *)
(* calculator.                                                             *)
(*                                                                         *)
(* Python values are tagged records [t, n, d, s]:                          *)
(*   t = "absent"  the key is not in the mapping                           *)
(*   t = "none"    None                                                    *)
(*   t = "num"     the number n/d (d > 0, lowest terms)                    *)
(*   t = "inf"     float infinity, of sign n                               *)
(*   t = "nan"     float not-a-number                                      *)
(*   t = "str"     the string s                                            *)
(*   t = "list"    a non-empty list: a value of a non-numeric type         *)
(*   t = "vol"     an annualised volatility whose variance is n/d          *)
(* Floats are modelled by exact rationals.  Monetary amounts are counted   *)
(* in thousands of NOK so that 1e12 fits the model's integers.             *)
(***************************************************************************)
EXTENDS Integers, Sequences, FiniteSets, TLC

VARIABLES
    ticker,      \* yf.Ticker(...).info: what the provider answers when asked
    info,        \* ValuationExtractor.info: the provider's per-ticker mapping
    quarterly,   \* ticker.quarterly_financials
    annual,      \* ticker.financials
    issues,      \* ValuationExtractor.data_quality_issues: the issue tracker
    cache,       \* CurrencyHandler: usd_nok_rate and rate_timestamp
    now,         \* the wall clock, in minutes
    chart,       \* the price series handed to the performance calculator
    daily,       \* data/daily.json: the record it holds, or no file
    metrics,     \* the metrics dict handed to _validate_metrics
    last,        \* the last call: its name, argument and outcome
    calls        \* how many calls were made on this extractor

vars == <<ticker, info, quarterly, annual, issues, cache, now, chart, daily, metrics,
          last, calls>>

------------------------------------------------------------------------------
(* Bounds of the model *)

\* calls made on one extractor in one behaviour
MaxCalls == 2

\* period columns of a quarterly statement table
MaxCols == 4
\* the clock stops at this many minutes
MaxNow == 120
\* the points of the longest chart handed to the smoothing
MaxLen == 16
\* the largest number of attempts asked of retry
MaxAttempts == 3

------------------------------------------------------------------------------
(* Python values *)

Val(t, n, d, s) == [t |-> t, n |-> n, d |-> d, s |-> s]
Absent == Val("absent", 0, 1, "")
None   == Val("none", 0, 1, "")
NaN    == Val("nan", 0, 1, "")
PosInf == Val("inf", 1, 1, "")
NegInf == Val("inf", -1, 1, "")
Str(x) == Val("str", 0, 1, x)
AList  == Val("list", 0, 1, "")
Num(i) == Val("num", i, 1, "")

Abs(i) == IF i < 0 THEN -i ELSE i

RECURSIVE GCD(_, _)
GCD(a, b) == IF b = 0 THEN a ELSE GCD(b, a % b)

\* the rational n/d in lowest terms with a positive denominator (d # 0)
Rat(n, d) ==
    LET g == GCD(Abs(n), Abs(d))
        sg == IF d < 0 THEN -1 ELSE 1
    IN  Val("num", sg * (n \div g), Abs(d) \div g, "")

IsNone(v) == v.t \in {"absent", "none"}
IsNum(v) == v.t = "num"
IsFloat(v) == v.t \in {"num", "inf", "nan"}

\* float comparison a < b: false as soon as one side is not-a-number; two
\* numbers are compared by their integer parts, then by their fractions
FLt(a, b) ==
    CASE a.t = "nan" \/ b.t = "nan" -> FALSE
      [] a.t = "inf" /\ b.t = "inf" -> a.n < b.n
      [] a.t = "inf" -> a.n < 0
      [] b.t = "inf" -> b.n > 0
      [] OTHER -> \/ a.n \div a.d < b.n \div b.d
                  \/ /\ a.n \div a.d = b.n \div b.d
                     /\ (a.n % a.d) * b.d < (b.n % b.d) * a.d
FGt(a, b) == FLt(b, a)
FLe(a, b) == a.t # "nan" /\ b.t # "nan" /\ ~FLt(b, a)
FGe(a, b) == FLe(b, a)

Sign(v) == IF v.n > 0 THEN 1 ELSE IF v.n < 0 THEN -1 ELSE 0

\* float arithmetic; a sum or product that IEEE leaves undefined is not-a-number
FAdd(a, b) ==
    CASE a.t = "nan" \/ b.t = "nan" -> NaN
      [] a.t = "inf" /\ b.t = "inf" -> IF a.n = b.n THEN a ELSE NaN
      [] a.t = "inf" -> a
      [] b.t = "inf" -> b
      [] OTHER -> Rat(a.n * b.d + b.n * a.d, a.d * b.d)
FNeg(a) == IF a.t = "nan" THEN NaN ELSE Val(a.t, -a.n, a.d, "")
FSub(a, b) == FAdd(a, FNeg(b))
FMul(a, b) ==
    CASE a.t = "nan" \/ b.t = "nan" -> NaN
      [] a.t = "inf" \/ b.t = "inf" ->
            IF Sign(a) * Sign(b) = 0 THEN NaN
            ELSE Val("inf", Sign(a) * Sign(b), 1, "")
      [] OTHER -> Rat(a.n * b.n, a.d * b.d)
\* a / b for a divisor that is not zero
FDiv(a, b) ==
    CASE a.t = "nan" \/ b.t = "nan" -> NaN
      [] a.t = "inf" /\ b.t = "inf" -> NaN
      [] a.t = "inf" -> Val("inf", Sign(a) * Sign(b), 1, "")
      [] b.t = "inf" -> Num(0)
      [] OTHER -> Rat(a.n * b.d, a.d * b.n)
FAbs(a) == IF a.t = "nan" THEN NaN ELSE Val(a.t, Abs(a.n), a.d, "")

\* bool(v)
Truthy(v) ==
    CASE v.t \in {"absent", "none"} -> FALSE
      [] v.t = "num" -> v.n # 0
      [] v.t = "str" -> v.s # ""
      [] OTHER -> TRUE

\* a or b
Or(a, b) == IF Truthy(a) THEN a ELSE b

\* float(s) of a string: the number it spells, or "ValueError"
FloatOfStr(s) ==
    CASE s = "12" -> Num(12)
      [] s = "0" -> Num(0)
      [] s = "-3" -> Num(-3)
      [] s = "inf" -> PosInf
      [] s = "-inf" -> NegInf
      [] s = "nan" -> NaN
      [] OTHER -> Str("ValueError")

\* float(v): the float, or Str of the exception's name
FloatOf(v) ==
    CASE IsFloat(v) -> v
      [] v.t = "str" -> FloatOfStr(v.s)
      [] OTHER -> Str("TypeError")

------------------------------------------------------------------------------
(* The issue tracker *)

\* One issue string: its fixed text, the field or metric it names, and the
\* value it formats.
Issue(kind, key, val) == [kind |-> kind, key |-> key, val |-> val]

\* the outcome of a call: the value returned, the tracker after it, and the
\* name of the exception it raised ("" when it returned)
Out(v, iss) == [v |-> v, iss |-> iss, exc |-> ""]
Raise(e, iss) == [v |-> None, iss |-> iss, exc |-> e]

------------------------------------------------------------------------------
(* ValuationExtractor._safe_extract *)

\* info.get(key)
Get(inf, key) == IF inf[key].t = "absent" THEN None ELSE inf[key]

MissingTokens == {"N/A", "", "None", "null"}

\* value in [None, 'N/A', '', 'None', 'null', 0]
IsMissing(v) ==
    \/ v.t = "none"
    \/ v.t = "str" /\ v.s \in MissingTokens
    \/ v.t = "num" /\ v.n = 0

negative_invalid_keys ==
    {"marketCap", "enterpriseValue", "totalRevenue", "totalCash", "totalDebt"}

\* _safe_extract with 0 left out of the list of missing representations
SafeExtract_ZeroKept(inf, iss, key) ==
    LET value == Get(inf, key)
        f == FloatOf(value)
    IN  IF IsMissing(value) /\ value.t # "num" THEN Out(None, iss)
        ELSE IF f.t = "str"
        THEN Out(None, Append(iss, Issue("Could not parse", key, value)))
        ELSE IF f.t = "inf" THEN Out(None, iss)
        ELSE IF key \in negative_invalid_keys /\ FLt(f, Num(0))
        THEN Out(None, Append(iss, Issue("Negative value for", key, f)))
        ELSE Out(f, iss)

\* _safe_extract without the check for infinity
SafeExtract_InfPassed(inf, iss, key) ==
    LET value == Get(inf, key)
        f == FloatOf(value)
    IN  IF IsMissing(value) THEN Out(None, iss)
        ELSE IF f.t = "str"
        THEN Out(None, Append(iss, Issue("Could not parse", key, value)))
        ELSE IF key \in negative_invalid_keys /\ FLt(f, Num(0))
        THEN Out(None, Append(iss, Issue("Negative value for", key, f)))
        ELSE Out(f, iss)

SafeExtract(inf, iss, key) ==
    LET value == Get(inf, key)
        f == FloatOf(value)
    IN  IF IsMissing(value) THEN Out(None, iss)
        ELSE IF f.t = "str"
        THEN Out(None, Append(iss, Issue("Could not parse", key, value)))
        ELSE IF f.t = "inf" THEN Out(None, iss)
        ELSE IF key \in negative_invalid_keys /\ FLt(f, Num(0))
        THEN Out(None, Append(iss, Issue("Negative value for", key, f)))
        ELSE Out(f, iss)

------------------------------------------------------------------------------
(* ValuationExtractor._calculate_enterprise_value *)

\* the return of the calculated value, after the discrepancy check
EvDiscrepancy(calculated_ev, diff_pct, iss) ==
    IF FGt(diff_pct, Num(20))
    THEN Out(calculated_ev,
             Append(iss, Issue("EV calculation discrepancy", "", diff_pct)))
    ELSE Out(calculated_ev, iss)

\* the decision between the calculated value and the reported one
EvResult(ev, market_cap, calculated_ev, iss) ==
    IF Truthy(market_cap) /\ FGt(market_cap, Num(0)) /\ FGt(calculated_ev, Num(0))
    THEN IF IsNone(ev) THEN Out(calculated_ev, iss)
         ELSE IF ev = Num(0) THEN Raise("ZeroDivisionError", iss)
         ELSE EvDiscrepancy(calculated_ev,
                  FMul(FDiv(FAbs(FSub(calculated_ev, ev)), ev), Num(100)), iss)
    ELSE Out(ev, iss)

\* the manual calculation, field by field: c, d and m2 are the extractions
\* of totalCash, totalDebt and marketCap
EvCash(ev, market_cap, total_debt, c) ==
    EvResult(ev, market_cap,
             FSub(FAdd(market_cap, total_debt), Or(c.v, Num(0))), c.iss)

EvDebt(inf, ev, market_cap, d) ==
    EvCash(ev, market_cap, Or(d.v, Num(0)), SafeExtract(inf, d.iss, "totalCash"))

EvMarketCap(inf, ev, m2) ==
    EvDebt(inf, ev, m2.v, SafeExtract(inf, m2.iss, "totalDebt"))

EvManual(inf, ev, iss) ==
    EvMarketCap(inf, ev, SafeExtract(inf, iss, "marketCap"))

\* the validation of a reported value against the market cap m1
EvBounds(inf, ev, m1) ==
    IF Truthy(m1.v) /\ FGt(ev, FMul(m1.v, Num(10)))
    THEN EvManual(inf, ev,
             Append(m1.iss, Issue("Enterprise Value seems too high", "", ev)))
    ELSE IF Truthy(m1.v) /\ FLt(ev, FMul(m1.v, Rat(1, 2)))
    THEN EvManual(inf, ev,
             Append(m1.iss, Issue("Enterprise Value seems too low", "", ev)))
    ELSE Out(ev, m1.iss)

\* e is the extraction of enterpriseValue
EvReported(inf, e) ==
    IF IsNone(e.v) THEN EvManual(inf, e.v, e.iss)
    ELSE EvBounds(inf, e.v, SafeExtract(inf, e.iss, "marketCap"))

CalculateEnterpriseValue(inf, iss) ==
    EvReported(inf, SafeExtract(inf, iss, "enterpriseValue"))

------------------------------------------------------------------------------
(* ValuationExtractor._get_trailing_pe *)

\* the fallback: cp and eps are the extractions of the price and of
\* trailingEps
PeCalculated(current_price, eps) ==
    IF Truthy(current_price) /\ Truthy(eps.v) /\ FGt(eps.v, Num(0))
    THEN Out(FDiv(current_price, eps.v), eps.iss)
    ELSE Out(None, eps.iss)

PePrice(inf, rp) ==
    PeCalculated(rp.v, SafeExtract(inf, rp.iss, "trailingEps"))

\* the right operand of "or" is evaluated only when the left is falsy
PeCurrentPrice(inf, cp) ==
    IF Truthy(cp.v) THEN PePrice(inf, cp)
    ELSE PePrice(inf, SafeExtract(inf, cp.iss, "regularMarketPrice"))

\* pe is the extraction of trailingPE
PeReported(inf, pe) ==
    IF ~IsNone(pe.v) THEN Out(pe.v, pe.iss)
    ELSE PeCurrentPrice(inf, SafeExtract(inf, pe.iss, "currentPrice"))

GetTrailingPe(inf, iss) ==
    PeReported(inf, SafeExtract(inf, iss, "trailingPE"))

------------------------------------------------------------------------------
(* ValuationExtractor._validate_metrics *)

ValidatedMetrics ==
    <<"trailing_pe", "forward_pe", "peg_ratio", "price_to_book",
      "price_to_sales", "ev_revenue", "ev_ebitda">>

\* validation_rules: metric -> (min_val, max_val)
validation_rules ==
    [trailing_pe |-> <<0, 1000>>, forward_pe |-> <<0, 1000>>,
     peg_ratio |-> <<0, 10>>, price_to_book |-> <<0, 100>>,
     price_to_sales |-> <<0, 200>>, ev_revenue |-> <<0, 500>>,
     ev_ebitda |-> <<0, 1000>>]

\* metrics.get(key) of a record that may lack the key
MGet(mtr, key) ==
    IF key \in DOMAIN mtr THEN mtr[key] ELSE None

OutOfRange(value, rule) ==
    ~IsNone(value) /\ (FLt(value, Num(rule[1])) \/ FGt(value, Num(rule[2])))

\* the tracker after the rules from position i on were applied, in the
\* dict's order
RECURSIVE ValidateFrom(_, _, _)
ValidateFrom(mtr, iss, i) ==
    IF i > Len(ValidatedMetrics) THEN iss
    ELSE LET metric == ValidatedMetrics[i]
             value == MGet(mtr, metric)
         IN  ValidateFrom(mtr,
                 IF OutOfRange(value, validation_rules[metric])
                 THEN Append(iss, Issue("outside normal range", metric, value))
                 ELSE iss,
                 i + 1)

ValidateMetrics(mtr, iss) == ValidateFrom(mtr, iss, 1)

------------------------------------------------------------------------------
(* Statement tables (ticker.quarterly_financials, ticker.financials)         *)
(*                                                                         *)
(* st is "ok", or "raise" when reading the attribute raises; index is the   *)
(* set of line items, ncols the number of period columns (most recent       *)
(* first), rows[key][c] the cell, col0 the label of the most recent period. *)

Table(st, index, ncols, rows, col0) ==
    [st |-> st, index |-> index, ncols |-> ncols, rows |-> rows, col0 |-> col0]

\* DataFrame.empty
Empty(tbl) == tbl.index = {} \/ tbl.ncols = 0

\* pd.notna
NotNa(v) == v.t # "nan"

RECURSIVE FSum(_)
FSum(seq) == IF seq = <<>> THEN Num(0) ELSE FAdd(seq[1], FSum(Tail(seq)))

\* [quarterly.loc[key, col] for col in last_4_quarters.columns
\*  if pd.notna(quarterly.loc[key, col])]
NonNull4(tbl, key) == SelectSeq(SubSeq(tbl.rows[key], 1, 4), NotNa)

------------------------------------------------------------------------------
(* ValuationExtractor._get_robust_financial_metrics *)

NoSource == <<"None", "">>
NoPeriod == <<"None", 0>>

RobustResult ==
    [ebitda_ttm |-> None, ebitda_latest |-> None,
     ebitda_source |-> NoSource, ebitda_period |-> NoPeriod,
     total_revenue_ttm |-> None, total_revenue_latest |-> None,
     revenue_source |-> NoSource, revenue_period |-> NoPeriod,
     data_timestamp |-> None, data_quality_issues |-> <<>>]

AddIssue(r, i) ==
    [r EXCEPT !.data_quality_issues = Append(@, i)]

\* a step inside a try block: the record so far and whether it raised
Step(r, exc) == [r |-> r, exc |-> exc]

quarterly_ebitda_keys == <<"EBITDA", "Normalized EBITDA">>
annual_ebitda_keys == <<"EBITDA", "Normalized EBITDA", "EBIT", "Operating Income">>
revenue_keys == <<"Total Revenue", "Revenue", "Net Sales">>

\* All four quarters of an alias are there: their sum.  strf is what
\* strftime("%Y-Q%q") does on the platform: "literal" or "ValueError".
EbitdaTTM(r, tbl, key, ebitda_values, strf) ==
    LET r1 == [r EXCEPT !.ebitda_ttm = FSum(ebitda_values),
                        !.ebitda_latest = tbl.rows[key][1],
                        !.ebitda_source = <<"quarterly_ttm", key>>]
    IN  IF strf = "ValueError" THEN Step(r1, TRUE)
        ELSE Step([r1 EXCEPT !.ebitda_period = <<"TTM_ending", tbl.col0>>,
                             !.data_timestamp = Num(tbl.col0)], FALSE)

\* the estimate that forgets its data-quality issue
EbitdaEstimate_NoIssue(r, tbl, key, ebitda_values) ==
    LET n == Len(ebitda_values)
        avg_quarterly == FDiv(FSum(ebitda_values), Num(n))
    IN  [r EXCEPT !.ebitda_ttm = FMul(avg_quarterly, Num(4)),
                  !.ebitda_latest = tbl.rows[key][1],
                  !.ebitda_source = <<"quarterly_estimated", key>>,
                  !.ebitda_period = <<"TTM_estimated_Q", n>>]

\* Two or three quarters of an alias are there: their mean, annualized
EbitdaEstimate(r, tbl, key, ebitda_values) ==
    LET n == Len(ebitda_values)
        avg_quarterly == FDiv(FSum(ebitda_values), Num(n))
    IN  AddIssue([r EXCEPT !.ebitda_ttm = FMul(avg_quarterly, Num(4)),
                           !.ebitda_latest = tbl.rows[key][1],
                           !.ebitda_source = <<"quarterly_estimated", key>>,
                           !.ebitda_period = <<"TTM_estimated_Q", n>>],
                 Issue("TTM EBITDA estimated from quarters", "", Num(n)))

\* The quarterly EBITDA loop from alias i on.
RECURSIVE QuarterlyEbitda(_, _, _, _)
QuarterlyEbitda(r, tbl, strf, i) ==
    IF i > Len(quarterly_ebitda_keys) THEN Step(r, FALSE)
    ELSE LET key == quarterly_ebitda_keys[i]
             ebitda_values == NonNull4(tbl, key)
         IN  IF key \notin tbl.index THEN QuarterlyEbitda(r, tbl, strf, i + 1)
             ELSE IF Len(ebitda_values) >= 4
             THEN EbitdaTTM(r, tbl, key, ebitda_values, strf)
             ELSE IF Len(ebitda_values) >= 2
             THEN Step(EbitdaEstimate(r, tbl, key, ebitda_values), FALSE)
             ELSE QuarterlyEbitda(r, tbl, strf, i + 1)

\* The quarterly revenue loop from alias i on.
RECURSIVE QuarterlyRevenue(_, _, _, _)
QuarterlyRevenue(r, tbl, strf, i) ==
    IF i > Len(revenue_keys) THEN Step(r, FALSE)
    ELSE LET key == revenue_keys[i]
             revenue_values == NonNull4(tbl, key)
         IN  IF key \in tbl.index /\ IsNone(r.total_revenue_ttm)
                /\ Len(revenue_values) >= 4
             THEN LET r1 == [r EXCEPT
                               !.total_revenue_ttm = FSum(revenue_values),
                               !.total_revenue_latest = tbl.rows[key][1],
                               !.revenue_source = <<"quarterly_ttm", key>>]
                  IN  IF strf = "ValueError" THEN Step(r1, TRUE)
                      ELSE Step([r1 EXCEPT
                                   !.revenue_period = <<"TTM_ending", tbl.col0>>],
                                FALSE)
             ELSE QuarterlyRevenue(r, tbl, strf, i + 1)

\* Method 1: the try block over the quarterly table
QuarterlyTier(r, tbl, strf) ==
    LET failed(x) == AddIssue(x, Issue("Quarterly TTM calculation failed", "", None))
        e == QuarterlyEbitda(r, tbl, strf, 1)
        v == QuarterlyRevenue(e.r, tbl, strf, 1)
    IN  IF tbl.st = "raise" THEN failed(r)
        ELSE IF Empty(tbl) \/ tbl.ncols < 4 THEN r
        ELSE IF e.exc THEN failed(e.r)
        ELSE IF v.exc THEN failed(v.r)
        ELSE v.r

\* The annual EBITDA loop from alias i on.
RECURSIVE AnnualEbitda(_, _, _)
AnnualEbitda(r, tbl, i) ==
    IF i > Len(annual_ebitda_keys) THEN r
    ELSE LET key == annual_ebitda_keys[i]
             ebitda_val == tbl.rows[key][1]
         IN  IF key \in tbl.index /\ NotNa(ebitda_val) /\ ebitda_val # Num(0)
             THEN [r EXCEPT !.ebitda_ttm = ebitda_val,
                            !.ebitda_latest = ebitda_val,
                            !.ebitda_source = <<"annual_financials", key>>,
                            !.ebitda_period = <<"year", tbl.col0>>,
                            !.data_timestamp = Num(tbl.col0)]
             ELSE AnnualEbitda(r, tbl, i + 1)

\* The annual revenue loop from alias i on.
RECURSIVE AnnualRevenue(_, _, _)
AnnualRevenue(r, tbl, i) ==
    IF i > Len(revenue_keys) THEN r
    ELSE LET key == revenue_keys[i]
             revenue_val == tbl.rows[key][1]
         IN  IF key \in tbl.index /\ NotNa(revenue_val) /\ revenue_val # Num(0)
             THEN [r EXCEPT !.total_revenue_ttm = revenue_val,
                            !.total_revenue_latest = revenue_val,
                            !.revenue_source = <<"annual_financials", key>>,
                            !.revenue_period = <<"year", tbl.col0>>]
             ELSE AnnualRevenue(r, tbl, i + 1)

\* Method 2: the annual table, read only while EBITDA is unresolved
AnnualTier(r, tbl) ==
    IF ~IsNone(r.ebitda_ttm) THEN r
    ELSE IF tbl.st = "raise"
    THEN AddIssue(r, Issue("Annual financials failed", "", None))
    ELSE IF Empty(tbl) THEN r
    ELSE LET e == AnnualEbitda(r, tbl, 1)
         IN  IF IsNone(e.total_revenue_ttm) THEN AnnualRevenue(e, tbl, 1) ELSE e

\* Method 3, EBITDA: the info dict, outside any try block
InfoEbitda(r, inf) ==
    LET ebitda_info == Get(inf, "ebitda")
        f == FloatOf(ebitda_info)
    IN  IF ~IsNone(r.ebitda_ttm) \/ ~Truthy(ebitda_info) THEN Step(r, "")
        ELSE IF f.t = "str" THEN Step(r, f.s)
        \* the warning formats ebitda_info itself with ",.0f"
        ELSE IF ebitda_info.t = "str" THEN Step(r, "ValueError")
        ELSE Step(AddIssue([r EXCEPT !.ebitda_ttm = f,
                                     !.ebitda_latest = f,
                                     !.ebitda_source = <<"info_dict", "">>,
                                     !.ebitda_period = <<"TTM_estimated", 0>>],
                           Issue("Using info dict EBITDA (TTM status uncertain)",
                                 "", None)),
                  "")

\* Method 3, revenue
InfoRevenue(r, inf) ==
    LET revenue_info == Get(inf, "totalRevenue")
        f == FloatOf(revenue_info)
    IN  IF ~IsNone(r.total_revenue_ttm) \/ ~Truthy(revenue_info) THEN Step(r, "")
        ELSE IF f.t = "str" THEN Step(r, f.s)
        ELSE Step([r EXCEPT !.total_revenue_ttm = f,
                            !.total_revenue_latest = f,
                            !.revenue_source = <<"info_dict", "">>,
                            !.revenue_period = <<"TTM_estimated", 0>>],
                  "")

\* The record returned, and the exception that escaped ("" when none did)
GetRobustFinancialMetrics(inf, q, a, strf) ==
    LET r2 == AnnualTier(QuarterlyTier(RobustResult, q, strf), a)
        e == InfoEbitda(r2, inf)
        v == InfoRevenue(e.r, inf)
    IN  IF e.exc # "" THEN e ELSE v

------------------------------------------------------------------------------
(* CurrencyHandler *)

\* the cache lives one hour; the clock counts minutes
cache_duration == 60

\* Approximate USD/NOK rate used when every source fails: 10.5
fallback_rate == Rat(21, 2)

\* a new handler's cache
NoCache == [usd_nok_rate |-> None, rate_timestamp |-> None]

\* _fetch_exchange_rate.  srcs[i] is what source i delivers: None when the
\* request fails or its answer is malformed, else the rate it quotes.  The
\* market quote is used only when it is a positive number; the two web
\* APIs are used as they come.
FetchExchangeRate(srcs) ==
    IF IsFloat(srcs[1]) /\ Truthy(srcs[1]) /\ FGt(srcs[1], Num(0)) THEN srcs[1]
    ELSE IF IsFloat(srcs[2]) THEN srcs[2]
    ELSE IF IsFloat(srcs[3]) THEN srcs[3]
    ELSE None

\* how many of the sources _fetch_exchange_rate asks before it returns
SourcesAttempted(srcs) ==
    IF IsFloat(srcs[1]) /\ Truthy(srcs[1]) /\ FGt(srcs[1], Num(0)) THEN 1
    ELSE IF IsFloat(srcs[2]) THEN 2
    ELSE 3

\* get_usd_nok_rate with a cache that never expires
GetUsdNokRate_NoExpiry(c, t, srcs) ==
    LET rate == FetchExchangeRate(srcs)
    IN  IF ~IsNone(c.usd_nok_rate) /\ ~IsNone(c.rate_timestamp)
        THEN [rate |-> c.usd_nok_rate, cache |-> c, fetched |-> FALSE]
        ELSE IF Truthy(rate)
        THEN [rate |-> rate,
              cache |-> [usd_nok_rate |-> rate, rate_timestamp |-> Num(t)],
              fetched |-> TRUE]
        ELSE [rate |-> fallback_rate, cache |-> c, fetched |-> TRUE]

\* get_usd_nok_rate that keeps the fallback rate as it keeps a fetched one
GetUsdNokRate_FallbackCached(c, t, srcs) ==
    LET rate == FetchExchangeRate(srcs)
    IN  IF /\ ~IsNone(c.usd_nok_rate) /\ ~IsNone(c.rate_timestamp)
           /\ t - c.rate_timestamp.n < cache_duration
        THEN [rate |-> c.usd_nok_rate, cache |-> c, fetched |-> FALSE]
        ELSE IF Truthy(rate)
        THEN [rate |-> rate,
              cache |-> [usd_nok_rate |-> rate, rate_timestamp |-> Num(t)],
              fetched |-> TRUE]
        ELSE [rate |-> fallback_rate,
              cache |-> [usd_nok_rate |-> fallback_rate, rate_timestamp |-> Num(t)],
              fetched |-> TRUE]

\* get_usd_nok_rate at time t: the rate returned, the cache afterwards, and
\* whether the sources were asked
GetUsdNokRate(c, t, srcs) ==
    LET rate == FetchExchangeRate(srcs)
    IN  IF /\ ~IsNone(c.usd_nok_rate) /\ ~IsNone(c.rate_timestamp)
           /\ t - c.rate_timestamp.n < cache_duration
        THEN [rate |-> c.usd_nok_rate, cache |-> c, fetched |-> FALSE]
        ELSE IF Truthy(rate)
        THEN [rate |-> rate,
              cache |-> [usd_nok_rate |-> rate, rate_timestamp |-> Num(t)],
              fetched |-> TRUE]
        ELSE [rate |-> fallback_rate, cache |-> c, fetched |-> TRUE]

\* str.upper and str.lower of the strings the model uses
Upper(x) ==
    CASE x = "usd" -> "USD"
      [] x = "nok" -> "NOK"
      [] OTHER -> x

\* 'energy' in sector.lower() or 'oil' in sector.lower()
EnergyOrOil(x) == x \in {"Energy", "Oil & Gas", "energy"}

\* info.get(key, 0): the default only replaces a missing key
GetOr0(inf, key) == IF inf[key].t = "absent" THEN Num(0) ELSE inf[key]

\* 50e9 NOK, in thousands
large_cap == 50000000
many_employees == 10000

\* detect_financial_currency: the currency code, or the exception raised
DetectFinancialCurrency(inf) ==
    LET financial_currency == Get(inf, "financialCurrency")
        currency == Get(inf, "currency")
        market_cap == GetOr0(inf, "marketCap")
        employees == GetOr0(inf, "fullTimeEmployees")
        sector == IF inf["sector"].t = "absent" THEN Str("") ELSE inf["sector"]
        found(x) == [cur |-> x, exc |-> ""]
        raised(e) == [cur |-> "", exc |-> e]
    IN  IF Truthy(financial_currency)
        THEN IF financial_currency.t = "str"
             THEN found(Upper(financial_currency.s))
             ELSE raised("AttributeError")
        ELSE IF Truthy(currency) /\ currency.t # "str" THEN raised("AttributeError")
        ELSE IF Truthy(currency) /\ Upper(currency.s) = "USD" THEN found("USD")
        ELSE IF sector.t # "str" THEN raised("AttributeError")
        ELSE IF ~IsFloat(market_cap) THEN raised("TypeError")
        ELSE IF FGt(market_cap, Num(large_cap)) THEN found("USD")
        ELSE IF ~IsFloat(employees) THEN raised("TypeError")
        ELSE IF FGt(employees, Num(many_employees)) THEN found("USD")
        ELSE IF EnergyOrOil(sector.s) THEN found("USD")
        ELSE found("NOK")

\* convert_to_nok without the shortcut for a zero value
ConvertToNok_ZeroConverted(value, source_currency, c, t, fetches) ==
    LET same == [v |-> value, cache |-> c, looked |-> FALSE, used |-> 0]
        g == GetUsdNokRate(c, t, fetches[1])
    IN  IF IsNone(value) THEN same
        ELSE IF Upper(source_currency) = "NOK" THEN same
        ELSE IF Upper(source_currency) = "USD"
        THEN [v |-> FMul(value, g.rate), cache |-> g.cache, looked |-> TRUE,
              used |-> IF g.fetched THEN 1 ELSE 0]
        ELSE same

\* convert_to_nok: the value, the cache afterwards, whether the rate was
\* looked up, and how many of the pending source answers were used
ConvertToNok(value, source_currency, c, t, fetches) ==
    LET same == [v |-> value, cache |-> c, looked |-> FALSE, used |-> 0]
        g == GetUsdNokRate(c, t, fetches[1])
    IN  IF IsNone(value) \/ value = Num(0) THEN same
        ELSE IF Upper(source_currency) = "NOK" THEN same
        ELSE IF Upper(source_currency) = "USD"
        THEN [v |-> FMul(value, g.rate), cache |-> g.cache, looked |-> TRUE,
              used |-> IF g.fetched THEN 1 ELSE 0]
        ELSE same

financial_fields ==
    <<"ebitda_ttm", "ebitda_latest", "total_revenue_ttm", "total_revenue_latest">>

\* The loop of normalize_financial_data from field i on.  nd is the
\* normalized copy; its data_quality_issues list is the one of the record
\* it was copied from (dict.copy is shallow).
RECURSIVE NormalizeFields(_, _, _, _, _, _, _)
NormalizeFields(robust_data, nd, cur, c, t, fetches, i) ==
    IF i > Len(financial_fields) THEN [nd |-> nd, cache |-> c]
    ELSE LET field == financial_fields[i]
             original_value == robust_data[field]
             cv == ConvertToNok(original_value, cur, c, t, fetches)
             nd1 == [nd EXCEPT ![field] = cv.v]
             nd2 == IF cur # "NOK"
                    THEN AddIssue(nd1, Issue("Converted to NOK from", field, Str(cur)))
                    ELSE nd1
         IN  IF IsNone(original_value)
             THEN NormalizeFields(robust_data, nd, cur, c, t, fetches, i + 1)
             ELSE NormalizeFields(robust_data, nd2, cur, cv.cache, t,
                                  SubSeq(fetches, cv.used + 1, Len(fetches)), i + 1)

\* normalize_financial_data: the normalized record, the record it was given
\* as it is afterwards, the cache, and the exception raised ("" for none)
NormalizeFinancialData(robust_data, inf, c, t, fetches) ==
    LET det == DetectFinancialCurrency(inf)
        n == NormalizeFields(robust_data, robust_data, det.cur, c, t, fetches, 1)
    IN  IF det.exc # ""
        THEN [nd |-> robust_data, given |-> robust_data, cache |-> c, exc |-> det.exc]
        ELSE [nd |-> n.nd @@ [financial_currency_detected |-> det.cur,
                              price_currency |-> "NOK",
                              currency_conversion_applied |-> det.cur # "NOK"],
              given |-> [robust_data EXCEPT !.data_quality_issues =
                                               n.nd.data_quality_issues],
              cache |-> n.cache, exc |-> ""]

------------------------------------------------------------------------------
(* The ratios over TTM figures: the definitions in force, the later ones of
   the class body *)

\* the fallback to the provider's ratio: y is the extraction of
\* enterpriseToEbitda
EvEbitdaFallback(y) ==
    IF Truthy(y.v)
    THEN Out(y.v, Append(y.iss,
               Issue("Using yfinance EV/EBITDA (our TTM calculation failed)",
                     "", None)))
    ELSE Out(y.v, y.iss)

\* e is the outcome of _calculate_enterprise_value
EvEbitdaOf(inf, e, ebitda_ttm) ==
    IF e.exc # "" THEN e
    ELSE IF Truthy(e.v) /\ Truthy(ebitda_ttm) /\ FGt(ebitda_ttm, Num(0))
    THEN Out(FDiv(e.v, ebitda_ttm), e.iss)
    ELSE EvEbitdaFallback(SafeExtract(inf, e.iss, "enterpriseToEbitda"))

GetEvEbitdaWithTtm(inf, iss, robust_data) ==
    EvEbitdaOf(inf, CalculateEnterpriseValue(inf, iss), robust_data.ebitda_ttm)

\* m is the extraction of marketCap
PriceToSalesOf(inf, m, revenue_ttm) ==
    IF Truthy(m.v) /\ Truthy(revenue_ttm) /\ FGt(revenue_ttm, Num(0))
    THEN Out(FDiv(m.v, revenue_ttm), m.iss)
    ELSE SafeExtract(inf, m.iss, "priceToSalesTrailing12Months")

GetPriceToSalesWithTtm(inf, iss, robust_data) ==
    PriceToSalesOf(inf, SafeExtract(inf, iss, "marketCap"),
                   robust_data.total_revenue_ttm)

------------------------------------------------------------------------------
(* Formatting *)

\* n / d (d > 0) rounded to the nearest integer, ties to even
RoundHalfEven(n, d) ==
    LET q == n \div d
        r == n - q * d
    IN  IF 2 * r < d THEN q
        ELSE IF 2 * r > d THEN q + 1
        ELSE IF q % 2 = 0 THEN q ELSE q + 1

RECURSIVE Pow10(_)
Pow10(p) == IF p = 0 THEN 1 ELSE 10 * Pow10(p - 1)

\* round(x, places), and the number an f-string's .<places>f shows
\* (the integer part is scaled apart from the fraction, whose numerator
\* stays small; for places = 0 a tie is settled by the integer part)
Round(x, places) ==
    IF x.t # "num" THEN x
    ELSE IF places = 0 THEN Rat(RoundHalfEven(x.n, x.d), 1)
    ELSE Rat((x.n \div x.d) * Pow10(places)
               + RoundHalfEven((x.n % x.d) * Pow10(places), x.d),
             Pow10(places))

\* the magnitudes 1e12, 1e9 and 1e6 NOK, in thousands
trillion == 1000000000
billion == 1000000
million == 1000
thousand == 1000

\* a display string: the number shown and the text after it
Shown(val, unit) == [val |-> val, unit |-> unit]
NotAvailable == Shown(None, "Ikke tilgjengelig")

\* value / 10^k for a number that may be too large to rescale by
\* multiplying its denominator
Scaled(value, by) == Rat(value.n, value.d * by)

\* _format_market_cap with the billions tier starting above 1e9
FormatMarketCap_ExclusiveBillion(value) ==
    IF IsNone(value) \/ FLe(value, Num(0)) THEN NotAvailable
    ELSE IF value.t # "num" THEN Shown(value, IF value.t = "inf"
                                               THEN "bill NOK" ELSE "mill NOK")
    ELSE IF FGe(value, Num(trillion)) THEN Shown(Round(Scaled(value, trillion), 1), "bill NOK")
    ELSE IF FGt(value, Num(billion)) THEN Shown(Round(Scaled(value, billion), 1), "mrd NOK")
    ELSE Shown(Round(Scaled(value, million), 0), "mill NOK")

FormatMarketCap(value) ==
    IF IsNone(value) \/ FLe(value, Num(0)) THEN NotAvailable
    ELSE IF value.t # "num" THEN Shown(value, IF value.t = "inf"
                                               THEN "bill NOK" ELSE "mill NOK")
    ELSE IF FGe(value, Num(trillion)) THEN Shown(Round(Scaled(value, trillion), 1), "bill NOK")
    ELSE IF FGe(value, Num(billion)) THEN Shown(Round(Scaled(value, billion), 1), "mrd NOK")
    ELSE Shown(Round(Scaled(value, million), 0), "mill NOK")

FormatRevenue(value) ==
    IF IsNone(value) \/ value = Num(0) THEN NotAvailable
    ELSE IF value.t # "num" THEN Shown(value, IF value.t = "inf"
                                               THEN "bill NOK" ELSE "NOK")
    ELSE IF FGe(FAbs(value), Num(trillion)) THEN Shown(Round(Scaled(value, trillion), 1), "bill NOK")
    ELSE IF FGe(FAbs(value), Num(billion)) THEN Shown(Round(Scaled(value, billion), 0), "mrd NOK")
    ELSE IF FGe(FAbs(value), Num(million)) THEN Shown(Round(Scaled(value, million), 0), "mill NOK")
    ELSE Shown(Round(FMul(value, Num(thousand)), 0), "NOK")

FormatRatio(value) ==
    IF IsNone(value) \/ FLe(value, Num(0)) THEN NotAvailable
    ELSE Shown(Round(value, 2), "")

------------------------------------------------------------------------------
(* ValuationExtractor.get_comprehensive_metrics *)

\* the fields of the provider's mapping that the engine reads
Keys ==
    {"marketCap", "enterpriseValue", "totalDebt", "totalCash", "totalRevenue",
     "trailingPE", "currentPrice", "regularMarketPrice", "trailingEps",
     "forwardPE", "pegRatio", "priceToBook", "enterpriseToRevenue",
     "enterpriseToEbitda", "priceToSalesTrailing12Months", "netIncomeToCommon",
     "ebitda", "financialCurrency", "currency", "fullTimeEmployees", "sector"}

BlankInfo == [k \in Keys |-> Absent]

ticker_symbol == "EQNR.OL"

\* The calls on the extractor that the metrics dict literal makes, in the
\* order the literal evaluates them
MetricCalls ==
    << <<"safe", "marketCap">>, <<"safe", "marketCap">>,
       <<"ev", "">>, <<"ev", "">>,
       <<"pe", "">>, <<"safe", "forwardPE">>, <<"safe", "pegRatio">>,
       <<"safe", "priceToBook">>, <<"ps", "">>,
       <<"safe", "enterpriseToRevenue">>, <<"ev_ebitda", "">>,
       <<"safe", "netIncomeToCommon">>, <<"safe", "netIncomeToCommon">>,
       <<"safe", "totalCash">>, <<"safe", "totalDebt">>,
       <<"ev_ebitda", "">>, <<"ps", "">>, <<"pe", "">>,
       <<"safe", "forwardPE">>, <<"safe", "pegRatio">>,
       <<"safe", "priceToBook">>, <<"safe", "enterpriseToRevenue">> >>

MetricCall(c, inf, iss, nd) ==
    CASE c[1] = "safe" -> SafeExtract(inf, iss, c[2])
      [] c[1] = "ev" -> CalculateEnterpriseValue(inf, iss)
      [] c[1] = "pe" -> GetTrailingPe(inf, iss)
      [] c[1] = "ps" -> GetPriceToSalesWithTtm(inf, iss, nd)
      [] c[1] = "ev_ebitda" -> GetEvEbitdaWithTtm(inf, iss, nd)

\* the values of the calls from position i on, the tracker after them, and
\* the exception that cut them short
RECURSIVE MetricValues(_, _, _, _, _)
\* o is the outcome of call i
MetricStep(inf, nd, i, vals, o) ==
    IF o.exc # "" THEN [vals |-> vals, iss |-> o.iss, exc |-> o.exc]
    ELSE MetricValues(inf, o.iss, nd, i + 1, Append(vals, o.v))

MetricValues(inf, iss, nd, i, vals) ==
    IF i > Len(MetricCalls) THEN [vals |-> vals, iss |-> iss, exc |-> ""]
    ELSE MetricStep(inf, nd, i, vals, MetricCall(MetricCalls[i], inf, iss, nd))

key_metrics ==
    <<"market_cap", "trailing_pe", "price_to_book", "price_to_sales",
      "enterprise_value">>

\* round(available_count / len(key_metrics), 2)
DataQualityScore(m) ==
    Round(Rat(Cardinality({i \in 1..Len(key_metrics) : ~IsNone(m[key_metrics[i]])}),
              Len(key_metrics)), 2)

GetFallbackMetrics ==
    [ticker |-> ticker_symbol, market_cap |-> None, enterprise_value |-> None,
     trailing_pe |-> None, forward_pe |-> None, data_quality_score |-> Num(0),
     data_quality_issues |-> <<Issue("Failed to extract ticker info", "", None)>>]

\* the metrics dict as the literal builds it
MetricsDict(v, nd, iss) ==
    [ticker |-> ticker_symbol,
     market_cap |-> v[1],
     market_cap_formatted |-> FormatMarketCap(v[2]),
     enterprise_value |-> v[3],
     enterprise_value_formatted |-> FormatMarketCap(v[4]),
     trailing_pe |-> v[5],
     forward_pe |-> v[6],
     peg_ratio |-> v[7],
     price_to_book |-> v[8],
     price_to_sales |-> v[9],
     ev_revenue |-> v[10],
     ev_ebitda |-> v[11],
     total_revenue |-> nd.total_revenue_ttm,
     revenue_formatted |-> FormatRevenue(nd.total_revenue_ttm),
     revenue_latest |-> nd.total_revenue_latest,
     ebitda |-> nd.ebitda_ttm,
     ebitda_formatted |-> FormatRevenue(nd.ebitda_ttm),
     ebitda_latest |-> nd.ebitda_latest,
     ebitda_source |-> nd.ebitda_source,
     ebitda_period |-> nd.ebitda_period,
     ebitda_timestamp |-> nd.data_timestamp,
     financial_currency_detected |-> nd.financial_currency_detected,
     currency_conversion_applied |-> nd.currency_conversion_applied,
     net_income |-> v[12],
     net_income_formatted |-> FormatRevenue(v[13]),
     total_cash |-> v[14],
     total_debt |-> v[15],
     ev_ebitda_formatted |-> FormatRatio(v[16]),
     price_to_sales_formatted |-> FormatRatio(v[17]),
     trailing_pe_formatted |-> FormatRatio(v[18]),
     forward_pe_formatted |-> FormatRatio(v[19]),
     peg_ratio_formatted |-> FormatRatio(v[20]),
     price_to_book_formatted |-> FormatRatio(v[21]),
     ev_revenue_formatted |-> FormatRatio(v[22]),
     data_quality_score |-> Num(0),
     data_quality_issues |-> iss \o nd.data_quality_issues]

\* One call: the record returned, self.info, the tracker and the rate cache
\* afterwards, and the exception that left the method ("" when it returned)
Returned(v, inf, iss, c, exc) ==
    [v |-> v, info |-> inf, iss |-> iss, cache |-> c, exc |-> exc]

\* the validation and the return; m is the dict with its score
MetricsValidated(inf, c, iss, m) ==
    Returned(m, inf, ValidateMetrics(m, iss), c, "")

\* the completeness score; m0 is the dict literal
MetricsReturned(inf, c, iss, m0) ==
    MetricsValidated(inf, c, iss,
                     [m0 EXCEPT !.data_quality_score = DataQualityScore(m0)])

\* run is the outcome of the calls of the dict literal
MetricsBuilt(inf, nd, c, run) ==
    IF run.exc # "" THEN Returned(None, inf, run.iss, c, run.exc)
    ELSE MetricsReturned(inf, c, run.iss, MetricsDict(run.vals, nd, run.iss))

\* n is the outcome of normalize_financial_data
MetricsNormalized(inf, iss, c, n) ==
    IF n.exc # "" THEN Returned(None, inf, iss, c, n.exc)
    ELSE MetricsBuilt(inf, n.nd, n.cache, MetricValues(inf, iss, n.nd, 1, <<>>))

\* g is the outcome of _get_robust_financial_metrics
MetricsRobust(inf, iss, c, t, fetches, g) ==
    IF g.exc # "" THEN Returned(None, inf, iss, c, g.exc)
    ELSE MetricsNormalized(inf, iss, c,
             NormalizeFinancialData(g.r, inf, c, t, fetches))

GetComprehensiveMetrics(tk, iss, q, a, c, t, strf, fetches) ==
    IF tk.st # "ok" THEN Returned(GetFallbackMetrics, BlankInfo, iss, c, "")
    ELSE MetricsRobust(tk.map, iss, c, t, fetches,
             GetRobustFinancialMetrics(tk.map, q, a, strf))

------------------------------------------------------------------------------
(* retry *)
(*                                                                         *)
(* The function retried is given by the outcomes of its successive         *)
(* invocations, each a value returned or the name of an exception raised.  *)
(* The outcome of retry records how often the function was invoked and the *)
(* waits slept, in order.                                                  *)

Returns_(v) == [ok |-> TRUE, v |-> v, exc |-> ""]
Fails(e) == [ok |-> FALSE, v |-> None, exc |-> e]

RECURSIVE FPow(_, _)
FPow(x, k) == IF k = 0 THEN Num(1) ELSE FMul(x, FPow(x, k - 1))

RetryOutcome(v, exc, invoked, waits) ==
    [v |-> v, exc |-> exc, invoked |-> invoked, waits |-> waits]

\* retry that sleeps after the final failure too
RECURSIVE RetryFrom_WaitsAlways(_, _, _, _, _, _, _)
RetryFrom_WaitsAlways(results, attempts, delay, factor, attempt, waits, last_exc) ==
    IF attempt >= attempts
    THEN RetryOutcome(None, IF last_exc = "" THEN "TypeError" ELSE last_exc,
                      attempt, waits)
    ELSE IF results[attempt + 1].ok
    THEN RetryOutcome(results[attempt + 1].v, "", attempt + 1, waits)
    ELSE RetryFrom_WaitsAlways(results, attempts, delay, factor, attempt + 1,
                               Append(waits, FMul(delay, FPow(factor, attempt))),
                               results[attempt + 1].exc)

\* the loop from the attempt numbered attempt (from 0); raising last_exc
\* when it is still None raises TypeError
RECURSIVE RetryFrom(_, _, _, _, _, _, _)
RetryFrom(results, attempts, delay, factor, attempt, waits, last_exc) ==
    IF attempt >= attempts
    THEN RetryOutcome(None, IF last_exc = "" THEN "TypeError" ELSE last_exc,
                      attempt, waits)
    ELSE IF results[attempt + 1].ok
    THEN RetryOutcome(results[attempt + 1].v, "", attempt + 1, waits)
    ELSE RetryFrom(results, attempts, delay, factor, attempt + 1,
                   IF attempt < attempts - 1
                   THEN Append(waits, FMul(delay, FPow(factor, attempt)))
                   ELSE waits,
                   results[attempt + 1].exc)

Retry(results, attempts, delay, factor) ==
    RetryFrom(results, attempts, delay, factor, 0, <<>>, "")

------------------------------------------------------------------------------
(* smooth_price_anomalies *)

\* a point of the chart as the fetch builds it
PricePoint(date, price, high, low, volume) ==
    [date |-> date, price |-> price, high |-> high, low |-> low,
     volume |-> volume]

\* max(a, b) and min(a, b) of two floats
FMax(a, b) == IF FGt(b, a) THEN b ELSE a
FMin(a, b) == IF FLt(b, a) THEN b ELSE a

\* the default of threshold_multiplier, the length below which the series
\* is returned as it is, and the largest window
threshold_multiplier == 3
min_points == 10
max_window == 10

\* the factors that open high and low around a replaced price
high_factor == Rat(102, 100)
low_factor == Rat(98, 100)

WindowSize(chart_data) ==
    IF max_window < Len(chart_data) \div 4 THEN max_window
    ELSE Len(chart_data) \div 4

\* the prices of the window around the point at position i (from 1)
WindowPrices(data, window_size, i) ==
    LET start == IF i - window_size \div 2 < 1 THEN 1 ELSE i - window_size \div 2
        end == IF i + window_size \div 2 > Len(data) THEN Len(data)
               ELSE i + window_size \div 2
    IN  [j \in 1..(end - start + 1) |-> data[start + j - 1].price]

Median(prices) ==
    LET window_prices == SortSeq(prices, LAMBDA a, b : FLt(a, b))
        n == Len(window_prices)
    IN  IF n % 2 = 1 THEN window_prices[n \div 2 + 1]
        ELSE FDiv(FAdd(window_prices[n \div 2], window_prices[n \div 2 + 1]), Num(2))

IsAnomaly(data, window_size, i) ==
    LET median == Median(WindowPrices(data, window_size, i))
        current_price == data[i].price
    IN  \/ FGt(current_price, FMul(median, Num(threshold_multiplier)))
        \/ FLt(current_price, FDiv(median, Num(threshold_multiplier)))

\* a replacement by the window's median at every position
NewPrice_MedianInside(data, window_size, i) ==
    Round(Median(WindowPrices(data, window_size, i)), 2)

\* the price that replaces an anomaly
NewPrice(data, window_size, i) ==
    IF i = 1 \/ i = Len(data)
    THEN Round(Median(WindowPrices(data, window_size, i)), 2)
    ELSE Round(FDiv(FAdd(data[i - 1].price, data[i + 1].price), Num(2)), 2)

\* the replacement without the recomputation of high and low
Corrected_PriceOnly(pt, new_price) == [pt EXCEPT !.price = new_price]

\* the point with its price replaced and its high and low recomputed
Corrected(pt, new_price) ==
    [pt EXCEPT !.price = new_price,
               !.high = Round(FMax(FMul(new_price, high_factor), pt.high), 2),
               !.low = Round(FMin(FMul(new_price, low_factor), pt.low), 2)]

\* the loop over the points, over the data smoothed so far
RECURSIVE SmoothFrom(_, _, _)
SmoothFrom(data, window_size, i) ==
    IF i > Len(data) THEN data
    ELSE IF IsAnomaly(data, window_size, i)
    THEN SmoothFrom([data EXCEPT ![i] = Corrected(data[i],
                                                  NewPrice(data, window_size, i))],
                    window_size, i + 1)
    ELSE SmoothFrom(data, window_size, i + 1)

\* smoothing that does not spare a short series
SmoothPriceAnomalies_ShortToo(chart_data) ==
    SmoothFrom(chart_data, WindowSize(chart_data), 1)

SmoothPriceAnomalies(chart_data) ==
    IF Len(chart_data) < min_points THEN chart_data
    ELSE SmoothFrom(chart_data, WindowSize(chart_data), 1)

------------------------------------------------------------------------------
(* calculate_performance_metrics *)
(*                                                                         *)
(* A chart is a sequence of points; a point's date is <<year, month, day>>, *)
(* which orders as its "%Y-%m-%d" text does.                                *)

Point(date, price) == [date |-> date, price |-> price]

Leap(y) == (y % 4 = 0 /\ y % 100 # 0) \/ y % 400 = 0

\* end_date.replace(year = y) of a valid date raises ValueError exactly
\* for 29 February in a common year
ReplaceYearRaises(date, y) == date[2] = 2 /\ date[3] = 29 /\ ~Leap(y)

DateGe(a, b) ==
    \/ a[1] > b[1]
    \/ a[1] = b[1] /\ a[2] > b[2]
    \/ a[1] = b[1] /\ a[2] = b[2] /\ a[3] >= b[3]

pct_change(old_price, new_price) ==
    IF FLe(old_price, Num(0)) THEN Num(0)
    ELSE FMul(FDiv(FSub(new_price, old_price), old_price), Num(100))

RECURSIVE FindFrom(_, _, _)
FindFrom(ch, target_date, i) ==
    IF i > Len(ch) THEN ch[1].price
    ELSE IF DateGe(ch[i].date, target_date) THEN ch[i].price
    ELSE FindFrom(ch, target_date, i + 1)

find_price_on_or_after(ch, target_date) == FindFrom(ch, target_date, 1)

\* the trading days of a year
trading_days == 252

Sample(ch) ==
    IF Len(ch) >= trading_days
    THEN SubSeq(ch, Len(ch) - trading_days + 1, Len(ch))
    ELSE ch

RECURSIVE Returns(_, _)
Returns(sample, i) ==
    IF i > Len(sample) THEN <<>>
    ELSE LET prev_price == sample[i - 1].price
             curr_price == sample[i].price
             rest == Returns(sample, i + 1)
         IN  IF FGt(prev_price, Num(0))
             THEN <<FDiv(FSub(curr_price, prev_price), prev_price)>> \o rest
             ELSE rest

\* The rounded volatility.  The square root is kept symbolic: a value of
\* type "vol" with n/d the variance of the returns stands for
\* round(sqrt(n/d) * sqrt(252) * 100, 2).
Volatility(returns) ==
    LET avg_return == FDiv(FSum(returns), Num(Len(returns)))
        sq == [i \in 1..Len(returns) |->
                 FMul(FSub(returns[i], avg_return), FSub(returns[i], avg_return))]
        variance == FDiv(FSum(sq), Num(Len(returns)))
    IN  IF returns = <<>> \/ variance = Num(0) THEN Num(0)
        ELSE Val("vol", variance.n, variance.d, "")

CalculatePerformanceMetrics(ch) ==
    LET first_price == ch[1].price
        last_price == ch[Len(ch)].price
        end_date == ch[Len(ch)].date
        two_years_ago == <<end_date[1] - 2, end_date[2], end_date[3]>>
        one_year_ago == <<end_date[1] - 1, end_date[2], end_date[3]>>
        price_2y_ago == find_price_on_or_after(ch, two_years_ago)
        price_1y_ago == find_price_on_or_after(ch, one_year_ago)
    IN  IF Len(ch) < 2
        THEN Out([performance_5y |-> Num(0), performance_2y |-> Num(0),
                  performance_1y |-> Num(0), volatility |-> Num(0)], <<>>)
        ELSE IF \/ ReplaceYearRaises(end_date, end_date[1] - 2)
                \/ ReplaceYearRaises(end_date, end_date[1] - 1)
        THEN Raise("ValueError", <<>>)
        ELSE Out([performance_5y |-> Round(pct_change(first_price, last_price), 2),
                  performance_2y |-> Round(pct_change(price_2y_ago, last_price), 2),
                  performance_1y |-> Round(pct_change(price_1y_ago, last_price), 2),
                  volatility |-> Volatility(Returns(Sample(ch), 2))], <<>>)

------------------------------------------------------------------------------
(* get_historical_chart_data and get_current_price *)
(*                                                                         *)
(* What history() answers is None or a frame of rows, a row being a date   *)
(* with its Close, High, Low and Volume cells.  A pull of the history is an *)
(* outcome of the function retry invokes: a frame returned, or the name of *)
(* the exception raised.                                                   *)

NoHistory == [st |-> "None", rows |-> <<>>]
Frame(rows) == [st |-> "frame", rows |-> rows]
Row(date, close, high, low, volume) ==
    [date |-> date, Close |-> close, High |-> high, Low |-> low,
     Volume |-> volume]

Pulled(hist) == [ok |-> TRUE, v |-> hist, exc |-> ""]
PullFails(e) == [ok |-> FALSE, v |-> NoHistory, exc |-> e]

\* the attempts, first delay and factor get_historical_chart_data passes
history_attempts == 3
history_delay == Num(1)
history_factor == Rat(3, 2)

\* the length above which every second point is dropped
downsample_above == 800

\* hist.dropna(subset = ["Close"])
DropNaClose(rows) == SelectSeq(rows, LAMBDA r : r.Close.t \notin {"nan", "none"})

\* the point of one row; no point when a cell cannot be converted
RowConverts(r) ==
    /\ IsFloat(r.Close) /\ IsFloat(r.High) /\ IsFloat(r.Low)
    /\ r.Volume.t \in {"num", "none"}

RowPoint(r) ==
    PricePoint(r.date, Round(r.Close, 2), Round(r.High, 2), Round(r.Low, 2),
               IF Truthy(r.Volume) THEN r.Volume.n \div r.Volume.d ELSE 0)

RECURSIVE RowPoints(_)
RowPoints(rows) ==
    IF rows = <<>> THEN <<>>
    ELSE IF RowConverts(Head(rows))
    THEN <<RowPoint(Head(rows))>> \o RowPoints(Tail(rows))
    ELSE RowPoints(Tail(rows))

DateLt(a, b) == ~DateGe(a, b)

\* out[::2]
EverySecond(out) == [i \in 1..((Len(out) + 1) \div 2) |-> out[2 * i - 1]]

\* the points of a frame: sorted by date, thinned when very many, smoothed
ChartOfRows(rows) ==
    CHOOSE ch \in
        {SmoothPriceAnomalies(IF Len(out) > downsample_above
                              THEN EverySecond(out) ELSE out) :
            out \in {SortSeq(RowPoints(rows),
                             LAMBDA a, b : DateLt(a.date, b.date))}} : TRUE

\* a chart fetch that lets the last failure of the pulls out
HistoryChart_Raises(r) ==
    IF r.exc # "" THEN [chart |-> <<>>, exc |-> r.exc]
    ELSE IF r.v.st = "None" \/ r.v.rows = <<>>
    THEN [chart |-> <<>>, exc |-> ""]
    ELSE [chart |-> ChartOfRows(DropNaClose(r.v.rows)), exc |-> ""]

\* the chart, and the exception that leaves get_historical_chart_data,
\* given the outcome r of retry
HistoryChart(r) ==
    IF r.exc # "" THEN [chart |-> <<>>, exc |-> ""]
    ELSE IF r.v.st = "None" \/ r.v.rows = <<>>
    THEN [chart |-> <<>>, exc |-> ""]
    ELSE [chart |-> ChartOfRows(DropNaClose(r.v.rows)), exc |-> ""]

GetHistoricalChartData(pulls) ==
    CHOOSE o \in
        {HistoryChart(r) :
            r \in {Retry(pulls, history_attempts, history_delay,
                         history_factor)}} : TRUE

\* a price a method of get_current_price may return: a positive number
UsablePrice(p) == IsFloat(p) /\ FGt(p, Num(0))

\* price = currentPrice or regularMarketPrice or previousClose; a key the
\* mapping does not hold reads as None
InfoGet(inf, key) == IF key \in DOMAIN inf THEN Get(inf, key) ELSE None

InfoPrice(inf) ==
    Or(InfoGet(inf, "currentPrice"),
       Or(InfoGet(inf, "regularMarketPrice"), InfoGet(inf, "previousClose")))

\* get_current_price: fast is fast_info.last_price and recent the latest
\* Close of the 5-day history, each None when the method has no answer or
\* raises; inf is stock.info
GetCurrentPrice(fast, recent, inf) ==
    IF UsablePrice(fast) THEN fast
    ELSE IF UsablePrice(recent) THEN recent
    ELSE IF Truthy(InfoPrice(inf)) /\ UsablePrice(FloatOf(InfoPrice(inf)))
    THEN FloatOf(InfoPrice(inf))
    ELSE None

------------------------------------------------------------------------------
(* fetch_enhanced_stock_data, the game metadata and main *)

\* normalize_ticker of the symbols the stock list holds
NormalizeTicker(s) ==
    CASE s = "" -> ""
      [] s \in {"EQNR", "eqnr", " eqnr.ol ", "EQNR.OL"} -> "EQNR.OL"
      [] OTHER -> s

\* str.lower of the sector names
Lower(x) ==
    CASE x = "Energy" -> "energy"
      [] x = "Technology" -> "technology"
      [] x = "Ukjent" -> "ukjent"
      [] OTHER -> x

\* the outcome of fetch_enhanced_stock_data or of main's steps: a data
\* record, None, or the exception that left it
Fetched(data) == [st |-> "data", data |-> data, exc |-> ""]
NothingFetched == [st |-> "None", data |-> None, exc |-> ""]
FetchRaised(e) == [st |-> "raise", data |-> None, exc |-> e]

\* max and min of the prices of the points on or after a date
RECURSIVE PriceRange(_, _, _)
PriceRange(ch, since, i) ==
    IF i > Len(ch) THEN <<>>
    ELSE IF DateGe(ch[i].date, since)
    THEN <<ch[i].price>> \o PriceRange(ch, since, i + 1)
    ELSE PriceRange(ch, since, i + 1)

RECURSIVE MaxOf(_)
MaxOf(prices) ==
    IF Len(prices) = 1 THEN prices[1] ELSE FMax(prices[1], MaxOf(Tail(prices)))

RECURSIVE MinOf(_)
MinOf(prices) ==
    IF Len(prices) = 1 THEN prices[1] ELSE FMin(prices[1], MinOf(Tail(prices)))

\* the 52-week high and low: the provider's, or those of the chart's last
\* year when one of them is missing
Week52(inf, ch) ==
    LET week_52_high == InfoGet(inf, "fiftyTwoWeekHigh")
        week_52_low == InfoGet(inf, "fiftyTwoWeekLow")
        end_date == ch[Len(ch)].date
        last_year_prices ==
            PriceRange(ch, <<end_date[1] - 1, end_date[2], end_date[3]>>, 1)
    IN  IF ~IsNone(week_52_high) /\ ~IsNone(week_52_low)
        THEN [high |-> week_52_high, low |-> week_52_low, exc |-> ""]
        ELSE IF ReplaceYearRaises(end_date, end_date[1] - 1)
        THEN [high |-> None, low |-> None, exc |-> "ValueError"]
        ELSE IF last_year_prices # <<>>
        THEN [high |-> MaxOf(last_year_prices), low |-> MinOf(last_year_prices),
              exc |-> ""]
        ELSE [high |-> week_52_high, low |-> week_52_low, exc |-> ""]

\* int(info.get("fullTimeEmployees") or 0)
Employees(inf) ==
    LET e == Or(InfoGet(inf, "fullTimeEmployees"), Num(0))
    IN  IF IsNum(e) THEN Num(e.n \div e.d)
        ELSE IF e.t = "list" THEN Str("TypeError") ELSE Str("ValueError")

\* the data dict; the performance figures and the valuation metrics it
\* spreads into itself are kept as two records, the ticker being that of
\* the valuation metrics, spread after it
DataDict(ticker_norm, inf, current_price, w, performance, valuation_metrics, ch, t) ==
    [company_name |-> Or(InfoGet(inf, "longName"),
                         Or(InfoGet(inf, "shortName"), Str(ticker_norm))),
     ticker |-> valuation_metrics.ticker,
     current_price |-> Round(current_price, 2),
     sector |-> Or(InfoGet(inf, "sector"), Str("Ukjent")),
     industry |-> Or(InfoGet(inf, "industry"), Str("Ukjent")),
     employees |-> Employees(inf),
     headquarters |-> Or(Or(InfoGet(inf, "city"), InfoGet(inf, "country")),
                         Str("Norge")),
     description |-> Or(InfoGet(inf, "longBusinessSummary"),
                        Str("Norsk borsnotert selskap")),
     price_52w_high |-> Round(FloatOf(Or(w.high, Num(0))), 2),
     price_52w_low |-> Round(FloatOf(Or(w.low, Num(0))), 2),
     performance |-> performance,
     valuation_metrics |-> valuation_metrics,
     chart_data |-> ch,
     last_updated |-> t]

\* the steps of fetch_enhanced_stock_data after the chart is there; p is
\* the outcome of calculate_performance_metrics, w the 52-week range
FetchCompiled(ticker_norm, inf, current_price, valuation_metrics, ch, t, p, w) ==
    IF p.exc # "" THEN FetchRaised(p.exc)
    ELSE IF w.exc # "" THEN FetchRaised(w.exc)
    ELSE IF Employees(inf).t = "str" THEN FetchRaised(Employees(inf).s)
    ELSE Fetched(DataDict(ticker_norm, inf, current_price, w, p.v,
                          valuation_metrics, ch, t))

\* the steps from the valuation metrics on; g is the outcome of
\* get_comprehensive_metrics, c that of get_historical_chart_data
FetchPriced(ticker_norm, g, t, current_price, c) ==
    IF g.exc # "" THEN FetchRaised(g.exc)
    ELSE IF IsNone(current_price) THEN NothingFetched
    ELSE IF c.exc # "" THEN FetchRaised(c.exc)
    ELSE IF c.chart = <<>> THEN NothingFetched
    ELSE CHOOSE f \in
             {FetchCompiled(ticker_norm, g.info, current_price, g.v, c.chart,
                            t, p, w) :
                 p \in {CalculatePerformanceMetrics(c.chart)},
                 w \in {Week52(g.info, c.chart)}} : TRUE

\* fetch_enhanced_stock_data on a new extractor: tk, q and a are what the
\* provider answers, env what it answers to the price and history requests
FetchEnhancedStockData(symbol, tk, q, a, t, env) ==
    CHOOSE f \in
        {FetchPriced(NormalizeTicker(symbol), g, t, current_price, c) :
            g \in {GetComprehensiveMetrics(tk, <<>>, q, a, NoCache, t,
                                           env.strf, env.fetches)},
            current_price \in
                {GetCurrentPrice(env.fast, env.recent,
                                 IF tk.st = "ok" THEN tk.map ELSE BlankInfo)},
            c \in {GetHistoricalChartData(env.pulls)}} : TRUE

\* whether a call of fetch_enhanced_stock_data gets as far as asking for
\* the history: the valuation metrics came back and a price was found
HistoryAsked(tk, q, a, t, env) ==
    /\ GetComprehensiveMetrics(tk, <<>>, q, a, NoCache, t, env.strf,
                               env.fetches).exc = ""
    /\ ~IsNone(GetCurrentPrice(env.fast, env.recent,
                               IF tk.st = "ok" THEN tk.map ELSE BlankInfo))

\* volatility > k for k = 50 and k = 30.  The figure is
\* round(sqrt(variance * 252) * 100, 2), which is above k when the variance
\* is at least (k + 0.005)^2 / 2520000, about 1/1007.8 and 1/2799.1
VolatilityAbove(v, k) ==
    IF v.t = "vol" THEN v.d \div v.n < (IF k = 50 THEN 1008 ELSE 2800)
    ELSE FGt(v, Num(k))

\* calculate_difficulty_rating; the data dict has no market_cap_raw
DifficultyScore(data) ==
    3
    + (IF VolatilityAbove(data.performance.volatility, 50) THEN 3
       ELSE IF VolatilityAbove(data.performance.volatility, 30) THEN 2 ELSE 1)
    + (IF \/ FGt(FAbs(data.performance.performance_1y), Num(100))
          \/ FGt(FAbs(data.performance.performance_5y), Num(500))
       THEN 2 ELSE 0)
    + (IF Lower(data.sector.s) \in {"technology", "consumer", "healthcare"} THEN 0
       ELSE IF Lower(data.sector.s) \in {"utilities", "real estate"} THEN 1
       ELSE 2)

CalculateDifficultyRating(data) ==
    IF data.sector.t # "str" THEN Str("AttributeError")
    ELSE IF DifficultyScore(data) <= 4 THEN Str("Lett")
    ELSE IF DifficultyScore(data) <= 7 THEN Str("Middels")
    ELSE Str("Vanskelig")

\* get_hint_categories: the data dict never holds market_cap_raw, and the
\* default headquarters and description give no hint
GetHintCategories(data) ==
    (IF Truthy(data.sector) /\ data.sector # Str("Ukjent") THEN <<"Sektor">> ELSE <<>>)
    \o (IF FGt(data.employees, Num(0)) THEN <<"Antall ansatte">> ELSE <<>>)
    \o (IF Truthy(data.valuation_metrics.trailing_pe) THEN <<"P/E-tall">> ELSE <<>>)
    \o (IF Truthy(data.headquarters) /\ data.headquarters # Str("Norge")
        THEN <<"Hovedkontor">> ELSE <<>>)
    \o (IF \/ data.performance.performance_1y # Num(0)
           \/ data.performance.performance_5y # Num(0)
           \/ data.performance.volatility # Num(0)
        THEN <<"Aksjeutvikling">> ELSE <<>>)

\* the record main writes
WithMetadata(data) ==
    [fetched |-> data,
     difficulty_rating |-> CalculateDifficultyRating(data),
     hint_categories |-> GetHintCategories(data)]

\* the file data/daily.json after the atomic write
Written(data) == [exists |-> TRUE, data |-> data]

\* the outcome of main: the file afterwards and the exception that left it
Ran(file, exc, wrote) == [daily |-> file, exc |-> exc, wrote |-> wrote]

\* main from the fetch on
MainFetched(file, f, write_ok) ==
    IF f.exc # "" THEN Ran(file, f.exc, FALSE)
    ELSE IF f.st = "None" THEN Ran(file, "", FALSE)
    ELSE IF CalculateDifficultyRating(f.data) = Str("AttributeError")
    THEN Ran(file, "AttributeError", FALSE)
    ELSE IF ~write_ok THEN Ran(file, "", FALSE)
    ELSE Ran(Written(WithMetadata(f.data)), "", TRUE)

\* main: env.selected is what select_daily_stock gives, env.write_ok whether
\* the temporary file can be written and moved over data/daily.json
Main(file, tk, q, a, t, env) ==
    IF ~env.selected.ok THEN Ran(file, "", FALSE)
    ELSE IF env.selected.ticker = "" THEN Ran(file, "", FALSE)
    ELSE CHOOSE r \in
             {MainFetched(file, f, env.write_ok) :
                 f \in {FetchEnhancedStockData(env.selected.ticker, tk, q, a,
                                               t, env)}} : TRUE

------------------------------------------------------------------------------
(* Initial states *)

\* the mapping that holds exactly the fields of f
InfoOf(f) == [k \in Keys |-> IF k \in DOMAIN f THEN f[k] ELSE Absent]

RowNames ==
    {"EBITDA", "Normalized EBITDA", "EBIT", "Operating Income",
     "Total Revenue", "Revenue", "Net Sales"}

NoTable == Table("ok", {}, 0, [k \in RowNames |-> <<>>], 0)
RaisingTable == Table("raise", {}, 0, [k \in RowNames |-> <<>>], 0)

NoCall == [op |-> "init", arg |-> "", v |-> None, exc |-> "", before |-> <<>>]
Call(op, arg, v, exc, before) ==
    [op |-> op, arg |-> arg, v |-> v, exc |-> exc, before |-> before]

\* the provider's answer: st is "ok" with a non-empty mapping, "empty" for
\* None or an empty mapping, "raise" when reading it raises
Provider(st, map) == [st |-> st, map |-> map]

\* data/daily.json does not exist
NoFile == [exists |-> FALSE, data |-> None]

\* everything but the inputs a specification draws
InitRest ==
    /\ ticker = Provider("ok", info)
    /\ daily = NoFile
    /\ issues = <<>>
    /\ cache = NoCache
    /\ now = 0
    /\ last = NoCall
    /\ calls = 0

SafeValues ==
    {Absent, None, Num(0), Num(5), Num(-5), Rat(1, 2), PosInf, NegInf, NaN, AList,
     Str("N/A"), Str(""), Str("None"), Str("null"), Str("abc"), Str("12"),
     Str("-3"), Str("inf"), Str("0")}

InitSafe ==
    /\ \E a, b \in SafeValues : info = InfoOf([marketCap |-> a, trailingPE |-> b])
    /\ quarterly = NoTable /\ annual = NoTable
    /\ chart = <<>> /\ metrics = <<>>
    /\ InitRest

InitEV ==
    /\ \E e \in {Absent, Num(100), Num(400), Num(2000), Num(-5), Str("0"), NaN},
          m \in {Absent, Num(100), Num(1000), Num(-7)},
          d \in {Absent, Num(50), Num(300)},
          c \in {Absent, Num(20), Num(2000)} :
          info = InfoOf([enterpriseValue |-> e, marketCap |-> m,
                         totalDebt |-> d, totalCash |-> c])
    /\ quarterly = NoTable /\ annual = NoTable
    /\ chart = <<>> /\ metrics = <<>>
    /\ InitRest

InitPE ==
    /\ \E pe \in {Absent, Num(0), Num(15), Num(-4), Str("abc"), PosInf},
          cp \in {Absent, Num(0), Num(90)},
          rp \in {Absent, Num(60), Str("x")},
          eps \in {Absent, Num(0), Num(4), Num(-4)} :
          info = InfoOf([trailingPE |-> pe, currentPrice |-> cp,
                         regularMarketPrice |-> rp, trailingEps |-> eps])
    /\ quarterly = NoTable /\ annual = NoTable
    /\ chart = <<>> /\ metrics = <<>>
    /\ InitRest

InitValidate ==
    /\ \E pe \in {None, Num(-5), Num(0), Num(15), Num(1000), Num(1001)},
          ee \in {None, Num(-50), Num(10), Num(1001)},
          peg \in {None, Num(5), Num(11)},
          mc \in {None, Num(700)} :
          metrics = [market_cap |-> mc, trailing_pe |-> pe, forward_pe |-> None,
                     peg_ratio |-> peg, price_to_book |-> None,
                     price_to_sales |-> None, ev_revenue |-> None,
                     ev_ebitda |-> ee]
    /\ info = BlankInfo
    /\ quarterly = NoTable /\ annual = NoTable
    /\ chart = <<>>
    /\ InitRest

\* a row of n cells that repeats the four-cell pattern p
RowOf(p, n) == [c \in 1..n |-> p[((c - 1) % 4) + 1]]

\* the table of n columns whose line items are the rows of f that are given
TableOf(f, n, col0) ==
    Table("ok", {k \in DOMAIN f : f[k] # <<>>}, n,
          [k \in RowNames |->
             IF k \in DOMAIN f /\ f[k] # <<>> THEN RowOf(f[k], n) ELSE <<>>],
          col0)

QuarterlyEbitdaRows ==
    {<<>>,
     <<NaN, NaN, NaN, NaN>>,
     <<Num(5), NaN, NaN, NaN>>,
     <<Num(5), NaN, Num(4), NaN>>,
     <<NaN, Num(4), Num(3), Num(5)>>,
     <<Num(5), Num(4), Num(3), Num(2)>>}

QuarterlyRevenueRows ==
    {<<>>,
     <<NaN, Num(40), Num(30), Num(50)>>,
     <<Num(50), Num(40), Num(30), Num(20)>>}

QuarterlyTables ==
    {RaisingTable} \cup
    {TableOf(("EBITDA" :> e) @@ ("Normalized EBITDA" :> ne)
              @@ ("Total Revenue" :> tr) @@ ("Revenue" :> rv), n, 20244) :
        e \in QuarterlyEbitdaRows,
        ne \in {<<>>, <<Num(7), Num(7), NaN, Num(7)>>},
        tr \in QuarterlyRevenueRows,
        rv \in {<<>>, <<Num(9), Num(9), Num(9), Num(9)>>},
        n \in 3..MaxCols}

AnnualTables ==
    {RaisingTable, NoTable} \cup
    {TableOf(("EBITDA" :> e) @@ ("EBIT" :> eb) @@ ("Total Revenue" :> tr),
             1, 2023) :
        e \in {<<>>, <<Num(0)>>, <<Num(8)>>},
        eb \in {<<>>, <<Num(6)>>},
        tr \in {<<>>, <<Num(200)>>}}

InitTTM ==
    /\ quarterly \in QuarterlyTables
    /\ annual \in AnnualTables
    /\ \E e \in {Absent, Num(11), Str("abc")}, tr \in {Absent, Num(300), AList} :
          info = InfoOf([ebitda |-> e, totalRevenue |-> tr])
    /\ chart = <<>> /\ metrics = <<>>
    /\ InitRest

\* What the provider may answer for a ticker: mappings that vary the
\* valuation fields, mappings that vary the fields the currency detection
\* reads, and the two failures
ValuationAnswers ==
    {InfoOf([marketCap |-> m, enterpriseValue |-> e, trailingPE |-> pe,
             priceToBook |-> pb, ebitda |-> eb, totalRevenue |-> Num(300),
             enterpriseToEbitda |-> Num(8)]) :
        m \in {Absent, Num(1000), Num(-7)},
        e \in {Absent, Num(1200), Str("0")},
        pe \in {Absent, Num(15), Num(2000)},
        pb \in {Absent, Num(150)},
        eb \in {Absent, Num(50), Str("abc")}}

CurrencyAnswers ==
    {InfoOf([financialCurrency |-> fc, currency |-> cu, sector |-> se,
             marketCap |-> m, fullTimeEmployees |-> em,
             ebitda |-> Num(50), totalRevenue |-> Num(300)]) :
        fc \in {Absent, Str("USD"), Str("usd"), Str("EUR"), Num(5)},
        cu \in {Absent, Str("USD"), Str("NOK")},
        se \in {Absent, None, Str("Energy")},
        m \in {Absent, None, Num(60000000)},
        em \in {Absent, Num(20000)}}

FullQuarterly ==
    TableOf(("EBITDA" :> <<Num(5), Num(4), Num(3), Num(2)>>)
            @@ ("Total Revenue" :> <<Num(50), Num(40), Num(30), Num(20)>>),
            4, 20244)

\* what the three rate sources answer at one lookup
SourceAnswers == {<<Num(-1), Num(11), None>>, <<None, None, None>>}

\* the answers to the lookups of one call, one per lookup made
FetchSeqs ==
    {<<a, a, a, a>> : a \in SourceAnswers}
        \cup {<<<<None, None, None>>, <<Num(10), None, None>>,
                <<Num(10), None, None>>, <<Num(10), None, None>>>>}

Charts ==
    {<<>>,
     <<Point(<<2024, 3, 1>>, Num(100))>>,
     <<Point(<<2021, 3, 1>>, Num(100)), Point(<<2023, 3, 1>>, Num(110)),
       Point(<<2024, 3, 1>>, Num(121))>>,
     <<Point(<<2022, 6, 1>>, Num(100)), Point(<<2023, 9, 1>>, Num(120)),
       Point(<<2024, 6, 1>>, Num(90))>>,
     <<Point(<<2023, 2, 28>>, Num(0)), Point(<<2024, 2, 28>>, Num(80))>>,
     <<Point(<<2023, 2, 28>>, Num(100)), Point(<<2024, 2, 29>>, Num(105))>>,
     <<Point(<<2023, 3, 1>>, Num(50)), Point(<<2024, 3, 1>>, Num(100))>>,
     <<Point(<<2023, 3, 1>>, Num(30)), Point(<<2024, 3, 1>>, Num(40))>>,
     <<Point(<<2021, 3, 1>>, Num(100)), Point(<<2024, 3, 1>>, Num(121))>>,
     <<Point(<<2021, 3, 1>>, Num(100)), Point(<<2022, 9, 1>>, Num(110)),
       Point(<<2024, 3, 1>>, Num(121))>>}

\* A new extractor (info empty, tracker empty, cache empty) beside what its
\* ticker's provider will answer, or a chart for the performance figures
InitMetrics ==
    /\ \/ /\ \E m \in ValuationAnswers : ticker = Provider("ok", m)
          /\ quarterly \in {NoTable, FullQuarterly}
          /\ chart = <<>>
       \/ /\ \E m \in CurrencyAnswers : ticker = Provider("ok", m)
          /\ quarterly = NoTable
          /\ chart = <<>>
       \/ /\ \E st \in {"empty", "raise"} : ticker = Provider(st, BlankInfo)
          /\ quarterly = NoTable
          /\ chart \in Charts
    /\ annual = NoTable
    /\ info = BlankInfo
    /\ metrics = <<>>
    /\ daily = NoFile
    /\ issues = <<>>
    /\ cache = NoCache
    /\ now = 0
    /\ last = NoCall
    /\ calls = 0

\* Charts for the smoothing: prices near 100 with the price at one position,
\* and possibly at the next, replaced; high and low lie at a distance
\* around the price
BasePrice(i) == 100 + 2 * (i % 2)
OddPrices == {400, 20, 306, 307, 34, 33}
ChartLengths == {3, min_points - 1, min_points, MaxLen}
PointAt(i, p, spread) ==
    PricePoint(<<2024, 1 + (i \div 28), 1 + (i % 28)>>, Num(p), Num(p + spread),
               Num(p - spread), 1000)
\* twelve points at 100 with a spike of 1000 at index 9 (from 0)
SpikeSeries == [i \in 1..12 |-> PointAt(i, IF i = 10 THEN 1000 ELSE 100, 1)]
SmoothCharts ==
    {[i \in 1..len |->
        PointAt(i, IF i = pos THEN p1
                   ELSE IF i = pos + 1 /\ p2 # 0 THEN p2
                   ELSE BasePrice(i), spread)] :
        len \in ChartLengths, pos \in 1..MaxLen, p1 \in OddPrices,
        p2 \in {0, 400, 20}, spread \in {1, 10}}
    \cup {SpikeSeries}
InitSmooth ==
    /\ info = BlankInfo
    /\ quarterly = NoTable /\ annual = NoTable
    /\ chart \in SmoothCharts
    /\ metrics = <<>>
    /\ InitRest

\* Amounts, in thousands of NOK, around the tiers of the formatters:
\* 999 999 999 NOK is Rat(999999999, 1000)
MagnitudeValues ==
    {None, NaN, PosInf, NegInf, Num(0), Num(-5), Num(-2 * billion),
     Rat(1, 2), Num(1), Num(999), Rat(1999, 2), Num(million), Num(1500),
     Num(billion - 1), Rat(999999999, 1000), Num(billion), Num(billion + 1),
     Num(1250 * million), Num(500 * billion), Num(trillion - 1), Num(trillion),
     Num(trillion + 1), Num(2 * trillion)}
RatioValues ==
    {None, NaN, PosInf, Num(0), Num(-1), Rat(1, 200), Rat(1, 8), Num(1),
     Rat(25, 2), Num(150), Rat(12345, 1000)}
InitFormat ==
    /\ info = BlankInfo
    /\ quarterly = NoTable /\ annual = NoTable
    /\ chart = <<>> /\ metrics = <<>>
    /\ InitRest

\* What the provider answers in the fields detect_financial_currency reads
DetectAnswers ==
    {InfoOf([financialCurrency |-> fc, currency |-> cu, sector |-> se,
             marketCap |-> m, fullTimeEmployees |-> em]) :
        fc \in {Absent, Str(""), Str("nok"), Str("USD"), Str("EUR"), Num(5)},
        cu \in {Absent, Str("usd"), Str("NOK")},
        se \in {Absent, None, Str("Energy"), Str("Technology")},
        m \in {Absent, None, Num(large_cap), Num(large_cap + 1)},
        em \in {Absent, Num(many_employees + 1)}}

\* Records as _get_robust_financial_metrics returns them
RobustInputs ==
    {RobustResult,
     [RobustResult EXCEPT !.ebitda_ttm = Num(50), !.ebitda_latest = Num(50),
                          !.total_revenue_ttm = Num(300),
                          !.total_revenue_latest = Num(300),
                          !.data_quality_issues =
                             <<Issue("Using info dict EBITDA (TTM status uncertain)",
                                     "", None)>>],
     [RobustResult EXCEPT !.ebitda_ttm = Num(0), !.ebitda_latest = Num(-4),
                          !.total_revenue_ttm = Num(300)],
     [RobustResult EXCEPT !.total_revenue_latest = Num(0)]}

\* the market quote answers 10 NOK per USD
RateAnswer == <<Num(10), None, None>>

InitNormalize ==
    /\ info \in DetectAnswers
    /\ quarterly = NoTable /\ annual = NoTable
    /\ chart = <<>> /\ metrics = <<>>
    /\ InitRest

\* What the successive invocations of the function retried do
RetryResults ==
    [1..MaxAttempts -> {Returns_(Num(7)), Fails("ConnectionError"), Fails("KeyError")}]
InitRetry ==
    /\ info = BlankInfo
    /\ quarterly = NoTable /\ annual = NoTable
    /\ chart = <<>> /\ metrics = <<>>
    /\ InitRest

\* the TTM figures handed to the ratio methods
EbitdaInputs == {None, Num(0), Num(-10), Num(1), Num(50), Num(5000)}
RevenueInputs == {None, Num(0), Num(300), Num(100000)}

InitRatio ==
    /\ \E e \in {Absent, Num(1200), Num(40), Str("0")},
          m \in {Absent, Num(1000), Num(10)},
          ee \in {Absent, Num(8), Num(-3), NaN},
          ps \in {Absent, Num(2)} :
          info = InfoOf([enterpriseValue |-> e, marketCap |-> m,
                         enterpriseToEbitda |-> ee,
                         priceToSalesTrailing12Months |-> ps])
    /\ quarterly = NoTable /\ annual = NoTable
    /\ chart = <<>> /\ metrics = <<>>
    /\ InitRest

\* what the market quote, the central bank and the conversion API answer
\* at one lookup: None for a source that is unreachable or answers nothing
\* usable as a number
RateSources ==
    {<<a, b, c>> : a \in {None, Num(10), Num(0), Num(-1), Str("x")},
                   b \in {None, Num(11), Num(0)},
                   c \in {None, Num(12)}}

\* the minutes that may pass between two calls
TickSteps == {20, 40, 60}

\* a new CurrencyHandler
InitRate ==
    /\ info = BlankInfo
    /\ quarterly = NoTable /\ annual = NoTable
    /\ chart = <<>> /\ metrics = <<>>
    /\ InitRest

\* Frames the provider may answer a history request with
GoodFrame ==
    Frame(<<Row(<<2023, 3, 1>>, Num(100), Num(101), Num(99), Num(1000)),
            Row(<<2023, 9, 1>>, Num(110), Rat(111126, 1000), Num(109), Num(1200)),
            Row(<<2024, 3, 1>>, Num(121), Num(122), Num(120), NaN),
            Row(<<2024, 3, 4>>, Num(121), Num(122), Num(119), None)>>)
NaFrame == Frame(<<Row(<<2024, 3, 1>>, NaN, NaN, NaN, Num(0))>>)
LeapDayFrame ==
    Frame(<<Row(<<2024, 2, 28>>, NaN, Num(101), Num(99), Num(1000)),
            Row(<<2024, 2, 29>>, Num(100), Num(101), Num(99), Num(1000))>>)
SpikeFrame ==
    Frame([i \in 1..Len(SpikeSeries) |->
             Row(SpikeSeries[i].date, SpikeSeries[i].price, SpikeSeries[i].high,
                 SpikeSeries[i].low, Num(SpikeSeries[i].volume))])

\* the outcomes of the three pulls of one history request
OneFrame(hist) ==
    <<Pulled(hist), PullFails("ConnectionError"), PullFails("ConnectionError")>>
AllFail ==
    <<PullFails("ConnectionError"), PullFails("ConnectionError"),
      PullFails("TimeoutError")>>
LastSucceeds ==
    <<PullFails("ConnectionError"), PullFails("TimeoutError"), Pulled(GoodFrame)>>
PullCases ==
    {AllFail, LastSucceeds,
     <<PullFails("TimeoutError"), Pulled(SpikeFrame), PullFails("TimeoutError")>>,
     <<PullFails("TimeoutError"), PullFails("TimeoutError"), Pulled(NoHistory)>>}
    \cup {OneFrame(h) : h \in {NoHistory, Frame(<<>>), NaFrame, GoodFrame,
                                LeapDayFrame}}

\* what the surroundings answer during one run: the stock selected, the
\* price methods, the history pulls, the rate lookups and the write
Env(selected, fast, recent, pulls, write_ok) ==
    [selected |-> selected, fast |-> fast, recent |-> recent, pulls |-> pulls,
     strf |-> "literal",
     fetches |-> <<RateAnswer, RateAnswer, RateAnswer, RateAnswer>>,
     write_ok |-> write_ok]
Selected(symbol) == [ok |-> TRUE, ticker |-> symbol]
NoneSelected == [ok |-> FALSE, ticker |-> ""]

FetchEnvs ==
    {Env(Selected("EQNR"), pr[1], pr[2], pulls, TRUE) :
        pr \in {<<None, None>>, <<Num(0), Rat(10555, 100)>>},
        pulls \in {AllFail, LastSucceeds, OneFrame(NoHistory),
                   OneFrame(LeapDayFrame)}}

MainEnvs ==
    {Env(Selected("eqnr"), None, Num(104), pulls, w) :
        pulls \in {AllFail, LastSucceeds, OneFrame(NaFrame), OneFrame(LeapDayFrame)},
        w \in BOOLEAN}
    \cup {Env(NoneSelected, None, Num(104), AllFail, TRUE),
          Env(Selected("EQNR.OL"), None, None, AllFail, TRUE),
          Env(Selected("EQNR.OL"), None, None, LastSucceeds, TRUE)}

\* the provider's answers for the stock of the day
DailyAnswers ==
    {Provider("ok", InfoOf([marketCap |-> Num(1000), totalRevenue |-> Num(300),
                            trailingPE |-> Num(15), currentPrice |-> Num(90),
                            sector |-> Str("Energy"),
                            fullTimeEmployees |-> Num(20000)])),
     Provider("ok", InfoOf([marketCap |-> Num(1000), ebitda |-> Str("abc")])),
     Provider("empty", BlankInfo)}

\* the file a run of the day before left
YesterdaysFile ==
    Written(WithMetadata(
        FetchEnhancedStockData("EQNR", Provider("empty", BlankInfo), NoTable,
                               NoTable, 0,
                               Env(Selected("EQNR"), Num(88), None,
                                   OneFrame(GoodFrame), TRUE)).data))

InitMain ==
    /\ ticker \in DailyAnswers
    /\ daily \in {NoFile, YesterdaysFile}
    /\ info = BlankInfo
    /\ quarterly = NoTable /\ annual = NoTable
    /\ chart = <<>> /\ metrics = <<>>
    /\ issues = <<>>
    /\ cache = NoCache
    /\ now = 0
    /\ last = NoCall
    /\ calls = 0

------------------------------------------------------------------------------
(* Calls on one extractor *)

DoGetRobustFinancialMetrics ==
    /\ calls < MaxCalls
    /\ \E strf \in {"literal", "ValueError"} :
          LET o == GetRobustFinancialMetrics(info, quarterly, annual, strf)
          IN  last' = Call("_get_robust_financial_metrics", strf, o.r, o.exc, issues)
    /\ calls' = calls + 1
    /\ UNCHANGED <<daily, ticker, info, quarterly, annual, issues, cache, now, chart, metrics>>

DoSafeExtract(key) ==
    /\ calls < MaxCalls
    /\ LET o == SafeExtract(info, issues, key)
       IN  /\ issues' = o.iss
           /\ last' = Call("_safe_extract", key, o.v, o.exc, issues)
    /\ calls' = calls + 1
    /\ UNCHANGED <<daily, ticker, info, quarterly, annual, cache, now, chart, metrics>>

DoCalculateEnterpriseValue ==
    /\ calls < MaxCalls
    /\ LET o == CalculateEnterpriseValue(info, issues)
       IN  /\ issues' = o.iss
           /\ last' = Call("_calculate_enterprise_value", "", o.v, o.exc, issues)
    /\ calls' = calls + 1
    /\ UNCHANGED <<daily, ticker, info, quarterly, annual, cache, now, chart, metrics>>

DoGetTrailingPe ==
    /\ calls < MaxCalls
    /\ LET o == GetTrailingPe(info, issues)
       IN  /\ issues' = o.iss
           /\ last' = Call("_get_trailing_pe", "", o.v, o.exc, issues)
    /\ calls' = calls + 1
    /\ UNCHANGED <<daily, ticker, info, quarterly, annual, cache, now, chart, metrics>>

DoValidateMetrics ==
    /\ calls < MaxCalls
    /\ issues' = ValidateMetrics(metrics, issues)
    /\ last' = Call("_validate_metrics", "", None, "", issues)
    /\ calls' = calls + 1
    /\ UNCHANGED <<daily, ticker, info, quarterly, annual, cache, now, chart, metrics>>

DoGetComprehensiveMetrics ==
    /\ calls < MaxCalls
    /\ \E strf \in {"literal", "ValueError"}, fetches \in FetchSeqs :
          \E o \in {GetComprehensiveMetrics(ticker, issues, quarterly, annual,
                                            cache, now, strf, fetches)} :
              /\ info' = o.info
              /\ issues' = o.iss
              /\ cache' = o.cache
              /\ last' = Call("get_comprehensive_metrics", "", o.v, o.exc, issues)
    /\ calls' = calls + 1
    /\ UNCHANGED <<daily, ticker, quarterly, annual, now, chart, metrics>>

DoCalculatePerformanceMetrics ==
    /\ calls < MaxCalls
    /\ LET o == CalculatePerformanceMetrics(chart)
       IN  last' = Call("calculate_performance_metrics", "", o.v, o.exc, issues)
    /\ calls' = calls + 1
    /\ UNCHANGED <<daily, ticker, info, quarterly, annual, issues, cache, now, chart, metrics>>

DoGetEvEbitdaWithTtm ==
    /\ calls < MaxCalls
    /\ \E e \in EbitdaInputs :
          \E rd \in {[RobustResult EXCEPT !.ebitda_ttm = e]} :
             \E o \in {GetEvEbitdaWithTtm(info, issues, rd)} :
                /\ issues' = o.iss
                /\ last' = Call("_get_ev_ebitda_with_ttm", rd, o.v, o.exc, issues)
    /\ calls' = calls + 1
    /\ UNCHANGED <<daily, ticker, info, quarterly, annual, cache, now, chart, metrics>>

DoGetPriceToSalesWithTtm ==
    /\ calls < MaxCalls
    /\ \E r \in RevenueInputs :
          \E rd \in {[RobustResult EXCEPT !.total_revenue_ttm = r]} :
             \E o \in {GetPriceToSalesWithTtm(info, issues, rd)} :
                /\ issues' = o.iss
                /\ last' = Call("_get_price_to_sales_with_ttm", rd, o.v, o.exc, issues)
    /\ calls' = calls + 1
    /\ UNCHANGED <<daily, ticker, info, quarterly, annual, cache, now, chart, metrics>>

\* The chart of a fetch is replaced by its smoothing
DoSmoothPriceAnomalies ==
    /\ calls < MaxCalls
    /\ \E out \in {SmoothPriceAnomalies(chart)} :
          /\ chart' = out
          /\ last' = Call("smooth_price_anomalies", chart, out, "", issues)
    /\ calls' = calls + 1
    /\ UNCHANGED <<daily, ticker, info, quarterly, annual, issues, cache, now, metrics>>

\* Calls on one CurrencyHandler with the provider's answer in info
DoDetectFinancialCurrency ==
    /\ calls < MaxCalls
    /\ \E o \in {DetectFinancialCurrency(info)} :
          last' = Call("detect_financial_currency", "", Str(o.cur), o.exc, cache)
    /\ calls' = calls + 1
    /\ UNCHANGED <<daily, ticker, info, quarterly, annual, issues, cache, now, chart, metrics>>

\* last.v holds the normalized record and the record given as it is
\* after the call
DoNormalizeFinancialData ==
    /\ calls < MaxCalls
    /\ \E robust_data \in RobustInputs :
          \E o \in {NormalizeFinancialData(robust_data, info, cache, now,
                                           <<RateAnswer, RateAnswer, RateAnswer,
                                             RateAnswer>>)} :
             /\ cache' = o.cache
             /\ last' = Call("normalize_financial_data", robust_data,
                             [nd |-> o.nd, given |-> o.given], o.exc, cache)
    /\ calls' = calls + 1
    /\ UNCHANGED <<daily, ticker, info, quarterly, annual, issues, now, chart, metrics>>

\* Calls of the daily run; last.before is data/daily.json before the call
DoGetHistoricalChartData ==
    /\ calls < MaxCalls
    /\ \E pulls \in PullCases :
          \E o \in {GetHistoricalChartData(pulls)} :
             /\ chart' = o.chart
             /\ last' = Call("get_historical_chart_data", pulls, o.chart, o.exc,
                             daily)
    /\ calls' = calls + 1
    /\ UNCHANGED <<daily, ticker, info, quarterly, annual, issues, cache, now, metrics>>

DoFetchEnhancedStockData ==
    /\ calls < MaxCalls
    /\ \E env \in FetchEnvs :
          \E o \in {FetchEnhancedStockData("EQNR", ticker, quarterly, annual,
                                           now, env)} :
             last' = Call("fetch_enhanced_stock_data", env,
                          [st |-> o.st, data |-> o.data,
                           asked |-> HistoryAsked(ticker, quarterly, annual,
                                                  now, env)],
                          o.exc, daily)
    /\ calls' = calls + 1
    /\ UNCHANGED <<daily, ticker, info, quarterly, annual, issues, cache, now, chart, metrics>>

DoMain ==
    /\ calls < MaxCalls
    /\ \E env \in MainEnvs :
          \E o \in {Main(daily, ticker, quarterly, annual, now, env)} :
             /\ daily' = o.daily
             /\ last' = Call("main", env,
                             [wrote |-> o.wrote,
                              asked |-> /\ env.selected.ok
                                        /\ env.selected.ticker # ""
                                        /\ HistoryAsked(ticker, quarterly,
                                                        annual, now, env)],
                             o.exc, daily)
    /\ calls' = calls + 1
    /\ UNCHANGED <<ticker, info, quarterly, annual, issues, cache, now, chart, metrics>>

\* Calls of the three formatters
DoFormatMarketCap ==
    /\ calls < MaxCalls
    /\ \E value \in MagnitudeValues :
          last' = Call("_format_market_cap", value, FormatMarketCap(value), "", issues)
    /\ calls' = calls + 1
    /\ UNCHANGED <<daily, ticker, info, quarterly, annual, issues, cache, now, chart, metrics>>

DoFormatRevenue ==
    /\ calls < MaxCalls
    /\ \E value \in MagnitudeValues :
          last' = Call("_format_revenue", value, FormatRevenue(value), "", issues)
    /\ calls' = calls + 1
    /\ UNCHANGED <<daily, ticker, info, quarterly, annual, issues, cache, now, chart, metrics>>

DoFormatRatio ==
    /\ calls < MaxCalls
    /\ \E value \in RatioValues :
          last' = Call("_format_ratio", value, FormatRatio(value), "", issues)
    /\ calls' = calls + 1
    /\ UNCHANGED <<daily, ticker, info, quarterly, annual, issues, cache, now, chart, metrics>>

\* One call of retry
DoRetry ==
    /\ calls < MaxCalls
    /\ \E results \in RetryResults, attempts \in 0..MaxAttempts,
          factor \in {Rat(3, 2), Num(2)} :
          \E o \in {Retry(results, attempts, Num(1), factor)} :
             last' = Call("retry",
                          [results |-> results, attempts |-> attempts,
                           delay |-> Num(1), factor |-> factor],
                          [value |-> o.v, invoked |-> o.invoked, waits |-> o.waits],
                          o.exc, issues)
    /\ calls' = calls + 1
    /\ UNCHANGED <<daily, ticker, info, quarterly, annual, issues, cache, now, chart, metrics>>

\* Calls on one CurrencyHandler; last.before is the cache before the call

DoGetUsdNokRate ==
    /\ calls < MaxCalls
    /\ \E srcs \in RateSources :
          \E o \in {GetUsdNokRate(cache, now, srcs)} :
             /\ cache' = o.cache
             /\ last' = Call("get_usd_nok_rate", srcs,
                             [rate |-> o.rate,
                              attempted |-> IF o.fetched
                                            THEN SourcesAttempted(srcs) ELSE 0],
                             "", cache)
    /\ calls' = calls + 1
    /\ UNCHANGED <<daily, ticker, info, quarterly, annual, issues, now, chart, metrics>>

DoConvertToNok ==
    /\ calls < MaxCalls
    /\ \E value \in {None, Num(0), Num(100), Num(-50), NaN},
          source_currency \in {"NOK", "nok", "USD", "usd", "EUR"},
          srcs \in {<<Num(10), None, None>>, <<None, None, None>>} :
          \E o \in {ConvertToNok(value, source_currency, cache, now, <<srcs>>)} :
             /\ cache' = o.cache
             /\ last' = Call("convert_to_nok",
                             [value |-> value, source_currency |-> source_currency,
                              srcs |-> srcs],
                             [value |-> o.v, looked |-> o.looked], "", cache)
    /\ calls' = calls + 1
    /\ UNCHANGED <<daily, ticker, info, quarterly, annual, issues, now, chart, metrics>>

\* time passes
Tick ==
    /\ \E d \in TickSteps :
          /\ now + d <= MaxNow
          /\ now' = now + d
          /\ last' = Call("tick", d, None, "", cache)
    /\ UNCHANGED <<daily, ticker, info, quarterly, annual, issues, cache, chart, metrics, calls>>

NextSafe == \E key \in {"marketCap", "trailingPE"} : DoSafeExtract(key)
SpecSafe == InitSafe /\ [][NextSafe]_vars

NextEV == DoCalculateEnterpriseValue
SpecEV == InitEV /\ [][NextEV]_vars

NextPE == DoGetTrailingPe
SpecPE == InitPE /\ [][NextPE]_vars

NextTTM == DoGetRobustFinancialMetrics
SpecTTM == InitTTM /\ [][NextTTM]_vars

NextValidate == DoValidateMetrics
SpecValidate == InitValidate /\ [][NextValidate]_vars

NextMetrics == DoGetComprehensiveMetrics \/ DoCalculatePerformanceMetrics
SpecMetrics == InitMetrics /\ [][NextMetrics]_vars

NextRatio == DoGetEvEbitdaWithTtm \/ DoGetPriceToSalesWithTtm
SpecRatio == InitRatio /\ [][NextRatio]_vars

NextRate == DoGetUsdNokRate \/ DoConvertToNok \/ Tick
SpecRate == InitRate /\ [][NextRate]_vars

NextSmooth == DoSmoothPriceAnomalies
SpecSmooth == InitSmooth /\ [][NextSmooth]_vars

NextRetry == DoRetry
SpecRetry == InitRetry /\ [][NextRetry]_vars

NextFormat == DoFormatMarketCap \/ DoFormatRevenue \/ DoFormatRatio
SpecFormat == InitFormat /\ [][NextFormat]_vars

NextNormalize == DoDetectFinancialCurrency \/ DoNormalizeFinancialData
SpecNormalize == InitNormalize /\ [][NextNormalize]_vars

NextMain == DoGetHistoricalChartData \/ DoFetchEnhancedStockData \/ DoMain
SpecMain == InitMain /\ [][NextMain]_vars

------------------------------------------------------------------------------
(* Properties of _safe_extract, checked under SpecSafe *)

\* the issues the last call appended
Appended == SubSeq(issues, Len(last.before) + 1, Len(issues))

\* the last call left the earlier issues in place
KeptBefore == SubSeq(issues, 1, Len(last.before)) = last.before

\* C6: _safe_extract returns absent and appends no issue when the field is
\* missing or equals None, "", "N/A", "None", "null" or 0; for a string that
\* cannot be parsed as a number it returns absent and appends exactly one
\* parse-failure issue naming the field; in neither case does it raise.
C6_MissingAndUnparsable ==
    last.op = "_safe_extract" =>
        LET value == info[last.arg]
        IN  /\ value \in {Absent, None, Str(""), Str("N/A"), Str("None"),
                          Str("null"), Num(0)}
                 => last.v = None /\ issues = last.before /\ last.exc = ""
            /\ (value.t = "str" /\ value.s \notin {"", "N/A", "None", "null"}
                   /\ FloatOfStr(value.s) = Str("ValueError"))
                 => /\ last.v = None /\ last.exc = ""
                    /\ issues = Append(last.before,
                                       Issue("Could not parse", last.arg, value))

\* C6 witness: a zero market cap was extracted without an issue, then an
\* unparsable trailing P/E was extracted with one
C6_Witness ==
    /\ calls = 2 /\ last.op = "_safe_extract" /\ last.arg = "trailingPE"
    /\ info["marketCap"] = Num(0) /\ info["trailingPE"] = Str("abc")
    /\ last.before = <<>> /\ Len(issues) = 1 /\ last.v = None

StructuralKeys ==
    {"marketCap", "enterpriseValue", "totalRevenue", "totalCash", "totalDebt"}

\* C7 as stated: every malformed value (a wrong type, an infinity, a negative
\* value of a structurally non-negative field) becomes absent and has an
\* issue appended, without an exception; no value returned is infinite or a
\* negative structural field.
C7_MalformedAlwaysFlagged ==
    last.op = "_safe_extract" =>
        LET value == info[last.arg]
        IN  /\ last.exc = ""
            /\ (\/ value.t \in {"list", "inf"}
                \/ value.t = "num" /\ value.n < 0 /\ last.arg \in StructuralKeys)
                 => last.v = None /\ KeptBefore /\ Len(Appended) = 1
            /\ last.v.t # "inf"
            /\ ~(last.arg \in StructuralKeys /\ FLt(last.v, Num(0)))

\* C7 as amended: a value of a wrong type and a negative value of a
\* structurally non-negative field become absent with exactly one issue
\* naming the field; an infinity becomes absent with no issue; no exception
\* escapes, and no value returned is infinite or a negative structural field.
C7_MalformedAbsent ==
    last.op = "_safe_extract" =>
        LET value == info[last.arg]
        IN  /\ last.exc = ""
            /\ value.t = "list"
                 => /\ last.v = None
                    /\ issues = Append(last.before,
                                       Issue("Could not parse", last.arg, value))
            /\ (value.t = "num" /\ value.n < 0 /\ last.arg \in StructuralKeys)
                 => /\ last.v = None
                    /\ issues = Append(last.before,
                                       Issue("Negative value for", last.arg, value))
            /\ value.t = "inf" => last.v = None /\ issues = last.before
            /\ last.v.t # "inf"
            /\ ~(last.arg \in StructuralKeys /\ FLt(last.v, Num(0)))

\* C7 witness: a list-typed trailing P/E was extracted as absent with an
\* issue, then an infinite market cap as absent without one
C7_Witness ==
    /\ calls = 2 /\ last.op = "_safe_extract" /\ last.arg = "marketCap"
    /\ info["marketCap"] = NegInf /\ info["trailingPE"] = AList
    /\ last.v = None /\ Len(last.before) = 1 /\ issues = last.before

------------------------------------------------------------------------------
(* Properties of _calculate_enterprise_value, checked under SpecEV *)

\* C2: whenever the snapshot holds a directly reported enterprise value that
\* passes _safe_extract, that reported value is the one returned, also when
\* it is more than 10x or less than 0.5x the market cap; in those two cases
\* a quality issue is recorded.
C2_ReportedValueReturned ==
    last.op = "_calculate_enterprise_value" =>
        LET ev == SafeExtract(info, <<>>, "enterpriseValue").v
            mc == SafeExtract(info, <<>>, "marketCap").v
            far == Truthy(mc) /\ (FGt(ev, FMul(mc, Num(10)))
                                   \/ FLt(ev, FMul(mc, Rat(1, 2))))
        IN  ~IsNone(ev) =>
               /\ last.exc = "" /\ last.v = ev
               /\ far => \E i \in 1..Len(Appended) :
                            Appended[i].kind \in {"Enterprise Value seems too high",
                                                  "Enterprise Value seems too low"}

------------------------------------------------------------------------------
(* Properties of _validate_metrics, checked under SpecValidate *)

\* the range the specification gives a metric
ClaimedRange(metric) ==
    CASE metric = "trailing_pe" -> <<-1000, 1000>>
      [] metric = "ev_ebitda" -> <<-100, 1000>>

\* C9: _validate_metrics records an issue for a metric exactly when its
\* non-null value lies outside that metric's range, trailing P/E having
\* [-1000, 1000] and EV/EBITDA [-100, 1000] (a trailing P/E of -5 is not
\* flagged); it never removes or alters a metric value.
C9_FlaggedExactlyOutsideRange ==
    last.op = "_validate_metrics" =>
        /\ KeptBefore
        /\ \A metric \in {"trailing_pe", "ev_ebitda"} :
              (\E i \in 1..Len(Appended) : Appended[i].key = metric)
                 <=> OutOfRange(metrics[metric], ClaimedRange(metric))

------------------------------------------------------------------------------
(* Properties of _get_trailing_pe, checked under SpecPE *)

\* C10: _get_trailing_pe returns the directly reported trailing P/E when it
\* is present; otherwise, whenever a current price and a non-zero trailing
\* EPS are both present, it returns currentPrice / trailingEPS, also when
\* it is negative; it returns absent only when the inputs are missing.
C10_NegativeEarningsKept ==
    last.op = "_get_trailing_pe" =>
        LET pe == SafeExtract(info, <<>>, "trailingPE").v
            cp == SafeExtract(info, <<>>, "currentPrice").v
            rp == SafeExtract(info, <<>>, "regularMarketPrice").v
            price == IF IsNone(cp) THEN rp ELSE cp
            eps == SafeExtract(info, <<>>, "trailingEps").v
        IN  IF ~IsNone(pe) THEN last.v = pe
            ELSE IF ~IsNone(price) /\ ~IsNone(eps) /\ eps # Num(0)
            THEN last.v = FDiv(price, eps)
            ELSE last.v = None

------------------------------------------------------------------------------
(* Properties of _get_robust_financial_metrics, checked under SpecTTM *)

EbitdaRows == {"EBITDA", "Normalized EBITDA", "EBIT", "Operating Income"}

\* the table without the line items of drop
WithoutRows(tbl, drop) ==
    [tbl EXCEPT !.index = @ \ drop,
                !.rows = [k \in RowNames |-> IF k \in drop THEN <<>> ELSE @[k]]]

\* what the record says of revenue
RevenuePart(r) ==
    <<r.total_revenue_ttm, r.total_revenue_latest, r.revenue_source,
      r.revenue_period>>

\* C3: revenue resolution is independent of EBITDA: two inputs that differ
\* only in EBITDA data (the EBITDA, Normalized EBITDA, EBIT and Operating
\* Income rows and the info 'ebitda' field) get the same total_revenue_ttm,
\* total_revenue_latest, revenue_source and revenue_period.  The input of
\* the last call is compared with the same input stripped of EBITDA data.
C3_RevenueIndependentOfEbitda ==
    (last.op = "_get_robust_financial_metrics" /\ last.exc = "") =>
        LET o == GetRobustFinancialMetrics(
                     [info EXCEPT !["ebitda"] = Absent],
                     IF quarterly.st = "ok" THEN WithoutRows(quarterly, EbitdaRows)
                     ELSE quarterly,
                     IF annual.st = "ok" THEN WithoutRows(annual, EbitdaRows)
                     ELSE annual,
                     last.arg)
        IN  o.exc = "" => RevenuePart(o.r) = RevenuePart(last.v)

\* the table whose EBITDA rows carry what the revenue rows of tbl carry
Mirrored(tbl) ==
    [tbl EXCEPT !.index = (IF "Total Revenue" \in @ THEN {"EBITDA"} ELSE {})
                          \cup (IF "Revenue" \in @ THEN {"Normalized EBITDA"} ELSE {}),
                !.rows = [k \in RowNames |->
                            IF k = "EBITDA" THEN @["Total Revenue"]
                            ELSE IF k = "Normalized EBITDA" THEN @["Revenue"]
                            ELSE <<>>]]

\* C4: revenue runs through the same four tiers as EBITDA: a pattern of
\* cells put on the revenue rows and field resolves revenue at the same
\* tier, by the same value rule, with the same source-tag prefix and the
\* same issue emission as the pattern put on the EBITDA rows and field
\* resolves EBITDA.  The input of the last call, when it holds no EBITDA
\* data, is compared with its mirror image.
C4_RevenueMirrorsEbitda ==
    (/\ last.op = "_get_robust_financial_metrics" /\ last.exc = ""
     /\ quarterly.st = "ok" /\ annual.st = "ok"
     /\ quarterly.index \cap EbitdaRows = {} /\ annual.index \cap EbitdaRows = {}
     /\ info["ebitda"] = Absent) =>
        LET o == GetRobustFinancialMetrics(
                     [info EXCEPT !["ebitda"] = info["totalRevenue"],
                                  !["totalRevenue"] = Absent],
                     Mirrored(quarterly), Mirrored(annual), last.arg)
        IN  o.exc = "" =>
               /\ o.r.ebitda_ttm = last.v.total_revenue_ttm
               /\ o.r.ebitda_latest = last.v.total_revenue_latest
               /\ o.r.ebitda_source[1] = last.v.revenue_source[1]
               /\ Len(o.r.data_quality_issues) = Len(last.v.data_quality_issues)

\* C5: for a quarterly table of at least 4 columns and the first matching
\* EBITDA alias: when the 4 most recent cells are all non-null, ebitda_ttm is
\* their sum and ebitda_source starts with quarterly_ttm; when only 2 or 3
\* of them are non-null, ebitda_ttm is their mean times 4, ebitda_source
\* starts with quarterly_estimated, and an issue naming the number of
\* quarters used is among the returned issues.
C5_QuarterlyTier ==
    (/\ last.op = "_get_robust_financial_metrics" /\ last.exc = ""
     /\ quarterly.st = "ok" /\ quarterly.ncols >= 4
     /\ quarterly.index \cap {"EBITDA", "Normalized EBITDA"} # {}) =>
        LET key == IF "EBITDA" \in quarterly.index THEN "EBITDA"
                   ELSE "Normalized EBITDA"
            c == quarterly.rows[key]
            present == {q \in 1..4 : c[q] # NaN}
            n == Cardinality(present)
            \* the sum of the cells that are there, the others counting 0
            cell(q) == IF q \in present THEN c[q] ELSE Num(0)
            total == FAdd(FAdd(cell(1), cell(2)), FAdd(cell(3), cell(4)))
            r == last.v
        IN  /\ n = 4 => /\ r.ebitda_ttm = total
                        /\ r.ebitda_source[1] = "quarterly_ttm"
            /\ n \in {2, 3} =>
                  /\ r.ebitda_ttm = FMul(FDiv(total, Num(n)), Num(4))
                  /\ r.ebitda_source[1] = "quarterly_estimated"
                  /\ \E i \in 1..Len(r.data_quality_issues) :
                        /\ r.data_quality_issues[i].kind
                              = "TTM EBITDA estimated from quarters"
                        /\ r.data_quality_issues[i].val = Num(n)

\* C5 witness: three quarters 4, 3, 5 of the first alias gave the estimate
\* 16 with its issue
C5_Witness ==
    /\ last.op = "_get_robust_financial_metrics" /\ last.exc = ""
    /\ quarterly.ncols >= 4 /\ "EBITDA" \in quarterly.index
    /\ SubSeq(quarterly.rows["EBITDA"], 1, 4) = <<NaN, Num(4), Num(3), Num(5)>>
    /\ last.v.ebitda_ttm = Num(16)
    /\ last.v.ebitda_source = <<"quarterly_estimated", "EBITDA">>
    /\ Len(last.v.data_quality_issues) >= 1

------------------------------------------------------------------------------
(* Properties of get_comprehensive_metrics and calculate_performance_metrics,
   checked under SpecMetrics *)

\* C1: whatever the provider's mapping holds (fields absent, null, strings or
\* numbers), whatever the statement tables, and for any date-ascending price
\* series of valid calendar dates, get_comprehensive_metrics and
\* calculate_performance_metrics return a record: no exception leaves them.
C1_NeverRaises ==
    last.op \in {"get_comprehensive_metrics", "calculate_performance_metrics"}
        => last.exc = ""

\* C8: every issue that one get_comprehensive_metrics call appended to the
\* extractor's tracker, those of _validate_metrics included, is an element
\* of the data_quality_issues list of the record the call returned.
C8_TrackerIssuesInRecord ==
    (last.op = "get_comprehensive_metrics" /\ last.exc = "")
        => \A i \in 1..Len(Appended) :
              \E j \in 1..Len(last.v.data_quality_issues) :
                 last.v.data_quality_issues[j] = Appended[i]

------------------------------------------------------------------------------
(* Properties of the ratios over TTM figures, checked under SpecRatio *)

\* some issue the last call appended has this text
AppendedKind(kind) == \E i \in 1..Len(Appended) : Appended[i].kind = kind

\* the enterprise value the last call worked with
EvOfLastCall == CalculateEnterpriseValue(info, last.before)

\* C11: whenever EV/EBITDA is computed as enterprise value / ebitda_ttm (both
\* present, ebitda_ttm > 0) and the ratio is outside [1, 100], an issue is
\* appended to the tracker, and likewise for P/S computed as market cap /
\* revenue_ttm outside [0.05, 50]; the computed ratio is returned either way.
C11_UnusualRatioFlagged ==
    /\ (/\ last.op = "_get_ev_ebitda_with_ttm" /\ last.exc = ""
        /\ Truthy(EvOfLastCall.v) /\ Truthy(last.arg.ebitda_ttm)
        /\ FGt(last.arg.ebitda_ttm, Num(0)))
          => /\ last.v = FDiv(EvOfLastCall.v, last.arg.ebitda_ttm)
             /\ (FLt(last.v, Num(1)) \/ FGt(last.v, Num(100)))
                   => AppendedKind("EV/EBITDA ratio seems unusual")
    /\ (/\ last.op = "_get_price_to_sales_with_ttm" /\ last.exc = ""
        /\ Truthy(SafeExtract(info, last.before, "marketCap").v)
        /\ Truthy(last.arg.total_revenue_ttm)
        /\ FGt(last.arg.total_revenue_ttm, Num(0)))
          => /\ last.v = FDiv(SafeExtract(info, last.before, "marketCap").v,
                              last.arg.total_revenue_ttm)
             /\ (FLt(last.v, Rat(1, 20)) \/ FGt(last.v, Num(50)))
                   => AppendedKind("P/S ratio seems unusual")

\* the multiple the provider reports directly, as the last call extracted it
ReportedEvEbitda == SafeExtract(info, last.before, "enterpriseToEbitda").v

\* C12: when ebitda_ttm is 0, null or negative, or the enterprise value is
\* absent, _get_ev_ebitda_with_ttm raises nothing; it returns the directly
\* reported multiple with an issue that the fallback was used when one is
\* present, and absent otherwise.
C12_NoDivisionFallback ==
    (/\ last.op = "_get_ev_ebitda_with_ttm"
     /\ \/ IsNone(last.arg.ebitda_ttm)
        \/ FLe(last.arg.ebitda_ttm, Num(0))
        \/ (EvOfLastCall.exc = "" /\ IsNone(EvOfLastCall.v)))
      => /\ last.exc = ""
         /\ last.v = ReportedEvEbitda
         /\ ~IsNone(ReportedEvEbitda)
               => AppendedKind("Using yfinance EV/EBITDA (our TTM calculation failed)")

------------------------------------------------------------------------------
(* Properties of _calculate_enterprise_value, checked under SpecEV *)

\* what the last call extracted from the mapping
Extracted(key) == SafeExtract(info, last.before, key).v

\* marketCap + totalDebt - totalCash, absent debt and cash counting as 0
ManualEv ==
    FSub(FAdd(Extracted("marketCap"), Or(Extracted("totalDebt"), Num(0))),
         Or(Extracted("totalCash"), Num(0)))

\* a and b differ by more than 20% of b
DifferByFifth(a, b) == FGt(FMul(FAbs(FSub(a, b)), Num(5)), FAbs(b))

\* C13: whenever a directly reported enterprise value exists, marketCap +
\* totalDebt - totalCash is computable and the two differ by more than 20%,
\* a discrepancy issue is recorded and the reported value is returned; when
\* no reported value exists the result is marketCap + totalDebt - totalCash.
C13_DiscrepancyPrefersReported ==
    (last.op = "_calculate_enterprise_value" /\ ~IsNone(Extracted("marketCap")))
      => /\ (~IsNone(Extracted("enterpriseValue"))
             /\ DifferByFifth(ManualEv, Extracted("enterpriseValue")))
               => /\ last.exc = ""
                  /\ last.v = Extracted("enterpriseValue")
                  /\ AppendedKind("EV calculation discrepancy")
         /\ IsNone(Extracted("enterpriseValue"))
               => (last.exc = "" /\ last.v = ManualEv)

------------------------------------------------------------------------------
(* Properties of the CurrencyHandler, checked under SpecRate *)

\* the cache held a refreshed rate when the last call began
Refreshed == ~IsNone(last.before.usd_nok_rate) /\ ~IsNone(last.before.rate_timestamp)

\* minutes between that refresh and the last call
Age == now - last.before.rate_timestamp.n

\* C14: once a call has refreshed the cache from a source, a call made less
\* than one hour after the refresh returns exactly the cached rate, asks
\* none of the three sources and leaves the cached rate and timestamp as
\* they were; a call made one hour or more after it asks the sources again.
C14_CacheHit ==
    (last.op = "get_usd_nok_rate" /\ Refreshed)
      => IF Age < cache_duration
         THEN /\ last.v.rate = last.before.usd_nok_rate
              /\ last.v.attempted = 0
              /\ cache = last.before
         ELSE last.v.attempted >= 1

\* a call 20 or 40 minutes after a refresh that was answered from the cache
\* while a source had another rate to offer
C14_Witness ==
    /\ last.op = "get_usd_nok_rate" /\ Refreshed
    /\ Age > 0 /\ Age < cache_duration
    /\ last.v.rate = last.before.usd_nok_rate
    /\ FetchExchangeRate(last.arg) # None
    /\ FetchExchangeRate(last.arg) # last.v.rate

\* a source succeeds when it answers with a rate: a positive number
Succeeds(a) == IsNum(a) /\ a.n > 0

\* the first source that succeeds, 0 when none does
FirstSuccess(srcs) ==
    IF Succeeds(srcs[1]) THEN 1
    ELSE IF Succeeds(srcs[2]) THEN 2
    ELSE IF Succeeds(srcs[3]) THEN 3
    ELSE 0

\* C15: on a cache miss the three sources are tried in the order market
\* quote, central bank, conversion API; the first that succeeds gives the
\* returned rate, no later source is asked, and the cache is refreshed with
\* that rate and the current time; when all three fail the fallback rate is
\* returned and nothing is raised.
C15_FirstSuccessWins ==
    (last.op = "get_usd_nok_rate" /\ ~(Refreshed /\ Age < cache_duration))
      => /\ last.exc = ""
         /\ IF FirstSuccess(last.arg) = 0
            THEN last.v.rate = fallback_rate
            ELSE /\ last.v.rate = last.arg[FirstSuccess(last.arg)]
                 /\ last.v.attempted = FirstSuccess(last.arg)
                 /\ cache = [usd_nok_rate |-> last.v.rate,
                             rate_timestamp |-> Num(now)]

\* C16: convert_to_nok is a no-op when the source currency is NOK or the
\* value is null or 0: it returns the identical value, looks up no rate and
\* leaves the cache alone; for USD and a value that is neither null nor 0
\* it returns value x get_usd_nok_rate().
C16_ConvertIdentityAndUsd ==
    last.op = "convert_to_nok"
      => /\ (\/ Upper(last.arg.source_currency) = "NOK"
             \/ IsNone(last.arg.value) \/ last.arg.value = Num(0))
               => /\ last.v.value = last.arg.value
                  /\ ~last.v.looked
                  /\ cache = last.before
         /\ (/\ Upper(last.arg.source_currency) = "USD"
             /\ ~IsNone(last.arg.value) /\ last.arg.value # Num(0))
               => /\ last.v.looked
                  /\ last.v.value =
                        FMul(last.arg.value,
                             GetUsdNokRate(last.before, now, last.arg.srcs).rate)
                  /\ cache = GetUsdNokRate(last.before, now, last.arg.srcs).cache

\* a zero amount in USD came back as it was, with no lookup, while the cache
\* was empty and a source had a rate to give
C16_Witness ==
    /\ last.op = "convert_to_nok"
    /\ last.arg.value = Num(0) /\ last.arg.source_currency = "USD"
    /\ last.arg.srcs[1] = Num(10)
    /\ last.before = NoCache /\ cache = NoCache
    /\ last.v.value = Num(0)

------------------------------------------------------------------------------
(* Properties of the normalization and of the performance figures, checked
   under SpecMetrics *)

\* the currency normalize_financial_data detects for the provider's answer
DetectedCurrency == DetectFinancialCurrency(ticker.map).cur

\* the last call normalized figures reported in a currency that is neither
\* NOK nor USD
UnknownCurrencyCall ==
    /\ last.op = "get_comprehensive_metrics" /\ last.exc = ""
    /\ ticker.st = "ok"
    /\ DetectFinancialCurrency(ticker.map).exc = ""
    /\ Upper(DetectedCurrency) \notin {"NOK", "USD"}

\* C17: a non-null, non-zero figure in a currency that is neither NOK nor
\* USD is returned unchanged by the conversion, and an issue saying that the
\* currency is unknown is among the issues delivered with the normalized
\* data.
C17_UnknownCurrencyIssue ==
    UnknownCurrencyCall
      => \E strf \in {"literal", "ValueError"} :
            LET r == GetRobustFinancialMetrics(ticker.map, quarterly, annual, strf).r
            IN  (~IsNone(r.ebitda_ttm) /\ r.ebitda_ttm # Num(0))
                  => /\ last.v.ebitda = r.ebitda_ttm
                     /\ \E j \in 1..Len(last.v.data_quality_issues) :
                           last.v.data_quality_issues[j].kind = "Unknown currency"

\* C20: calculate_performance_metrics returns all four figures as 0.0 for a
\* series of fewer than 2 points; for 2 or more points it returns
\* performance_5y equal to pct_change(first price, last price).
C20_PerformanceOverSeries ==
    last.op = "calculate_performance_metrics"
      => IF Len(chart) < 2
         THEN /\ last.exc = ""
              /\ last.v = [performance_5y |-> Num(0), performance_2y |-> Num(0),
                           performance_1y |-> Num(0), volatility |-> Num(0)]
         ELSE /\ last.exc = ""
              /\ last.v.performance_5y =
                    pct_change(chart[1].price, chart[Len(chart)].price)

------------------------------------------------------------------------------
(* Properties of smooth_price_anomalies, checked under SpecSmooth *)

\* no point of the series is an anomaly of its window
NoAnomaly(data) ==
    \A i \in 1..Len(data) : ~IsAnomaly(data, WindowSize(data), i)

\* C18: smooth_price_anomalies returns a series equal to its input, of the
\* same length and with the same date, price, high, low and volume at every
\* index, whenever the input has fewer than 10 points or no point's price
\* is above median x threshold or below median / threshold of its window.
C18_NoAnomalyNoChange ==
    (/\ last.op = "smooth_price_anomalies"
     /\ (Len(last.arg) < min_points \/ NoAnomaly(last.arg)))
      => /\ Len(last.v) = Len(last.arg)
         /\ \A i \in 1..Len(last.arg) :
               /\ last.v[i].date = last.arg[i].date
               /\ last.v[i].price = last.arg[i].price
               /\ last.v[i].high = last.arg[i].high
               /\ last.v[i].low = last.arg[i].low
               /\ last.v[i].volume = last.arg[i].volume

\* a series of 10 or more points holding a price four times its
\* neighbours' came back as it was, because no window made it an anomaly
C18_Witness ==
    /\ last.op = "smooth_price_anomalies"
    /\ Len(last.arg) >= min_points
    /\ \E i \in 1..Len(last.arg) : last.arg[i].price = Num(400)
    /\ NoAnomaly(last.arg)
    /\ last.v = last.arg

\* a point with positive price between its low and its high
WellFormed(pt) ==
    /\ FGt(pt.price, Num(0))
    /\ FGe(pt.high, pt.price) /\ FGe(pt.price, pt.low)

\* C19: if every input point has a positive price and high >= price >= low,
\* every output point has high >= price >= low, and every corrected point
\* has high >= its new price x 1.02 and low <= its new price x 0.98, each
\* rounded to 2 decimals.
C19_HighLowPreserved ==
    (/\ last.op = "smooth_price_anomalies"
     /\ \A i \in 1..Len(last.arg) : WellFormed(last.arg[i]))
      => \A i \in 1..Len(last.v) :
            /\ FGe(last.v[i].high, last.v[i].price)
            /\ FGe(last.v[i].price, last.v[i].low)
            /\ last.v[i] # last.arg[i]
                 => /\ FGe(last.v[i].high,
                           Round(FMul(last.v[i].price, high_factor), 2))
                    /\ FLe(last.v[i].low,
                           Round(FMul(last.v[i].price, low_factor), 2))

\* a low price inside a well-formed series was replaced by a price above
\* the high the point had
C19_Witness ==
    /\ last.op = "smooth_price_anomalies"
    /\ \A i \in 1..Len(last.arg) : WellFormed(last.arg[i])
    /\ \E i \in 1..Len(last.arg) :
          /\ last.v[i].price # last.arg[i].price
          /\ FGt(last.v[i].price, last.arg[i].high)


\* the position of the first point before the last one that is dated on or
\* after the target, 0 when there is none
RECURSIVE FirstEarlier(_, _, _)
FirstEarlier(ch, target_date, i) ==
    IF i >= Len(ch) THEN 0
    ELSE IF DateGe(ch[i].date, target_date) THEN i
    ELSE FirstEarlier(ch, target_date, i + 1)

\* the reference price years_back years before the last date: that of the
\* first qualifying earlier point, else that of the first point
ReferencePrice(ch, years_back) ==
    LET end_date == ch[Len(ch)].date
        target == <<end_date[1] - years_back, end_date[2], end_date[3]>>
        k == FirstEarlier(ch, target, 1)
    IN  IF k = 0 THEN ch[1].price ELSE ch[k].price

\* C21: the N-year reference price (N = 1, 2) is the price of the first
\* point dated on or after (last date - N years); when no point earlier than
\* the last one qualifies, the first point's price is the reference, so that
\* performance_Ny is pct_change(first price, last price), as reported to 2
\* decimals.
C21_ReferencePrice ==
    (last.op = "calculate_performance_metrics" /\ last.exc = "" /\ Len(chart) >= 2)
      => /\ last.v.performance_1y =
               Round(pct_change(ReferencePrice(chart, 1), chart[Len(chart)].price), 2)
         /\ last.v.performance_2y =
               Round(pct_change(ReferencePrice(chart, 2), chart[Len(chart)].price), 2)

------------------------------------------------------------------------------
(* Properties of retry, checked under SpecRetry *)

\* the position of the first invocation among the first n that succeeds,
\* 0 when none does
RECURSIVE FirstOk(_, _, _)
FirstOk(results, n, i) ==
    IF i > n THEN 0
    ELSE IF results[i].ok THEN i
    ELSE FirstOk(results, n, i + 1)

\* C27: with attempts >= 1 the function is invoked at most attempts times
\* and never again after its first success, whose value is returned; each
\* failure before the last attempt is followed by a wait of
\* delay x factor^k after the k-th (from 0) failed attempt; when all
\* attempts fail the exception of the final attempt is raised, with no wait
\* after it.
C27_RetryBackoff ==
    (last.op = "retry" /\ last.arg.attempts >= 1)
      => LET a == last.arg
             k == FirstOk(a.results, a.attempts, 1)
             failed == IF k = 0 THEN a.attempts - 1 ELSE k - 1
         IN  /\ last.v.invoked <= a.attempts
             /\ k # 0 => /\ last.exc = ""
                         /\ last.v.invoked = k
                         /\ last.v.value = a.results[k].v
             /\ k = 0 => /\ last.exc = a.results[a.attempts].exc
                         /\ last.v.invoked = a.attempts
             /\ Len(last.v.waits) = failed
             /\ \A j \in 1..failed :
                   last.v.waits[j] = FMul(a.delay, FPow(a.factor, j - 1))

\* three attempts were asked, the first two failed in different ways and
\* the third succeeded after waits of 1 and 1.5
C27_Witness ==
    /\ last.op = "retry" /\ last.arg.attempts = 3
    /\ ~last.arg.results[1].ok /\ ~last.arg.results[2].ok
    /\ last.arg.results[1].exc # last.arg.results[2].exc
    /\ last.arg.results[3].ok
    /\ last.exc = "" /\ last.v.value = Num(7)
    /\ last.v.waits = <<Num(1), Rat(3, 2)>>

------------------------------------------------------------------------------
(* Properties of the formatters, checked under SpecFormat *)

\* the whole thousands of NOK in an amount
Whole(v) == v.n \div v.d

\* C23: _format_market_cap has inclusive boundaries: a value >= 1e12 is
\* shown in 'bill', a value >= 1e9 and < 1e12 in 'mrd', any smaller positive
\* value in 'mill'; exactly 1e9 is shown in 'mrd' and 999 999 999 is not;
\* null or a value that is not positive gives 'Ikke tilgjengelig'.
C23_MagnitudeTiers ==
    last.op = "_format_market_cap"
      => LET v == last.arg
         IN  /\ (IsNone(v) \/ (IsNum(v) /\ v.n <= 0)) => last.v = NotAvailable
             /\ (IsNum(v) /\ v.n > 0) =>
                   last.v.unit = IF Whole(v) >= trillion THEN "bill NOK"
                                 ELSE IF Whole(v) >= billion THEN "mrd NOK"
                                 ELSE "mill NOK"
             /\ v = Num(billion) => last.v = Shown(Num(1), "mrd NOK")
             /\ v = Rat(999999999, 1000) => last.v.unit # "mrd NOK"

\* exactly 1e9 NOK was shown as 1.0 mrd NOK
C23_Witness ==
    /\ last.op = "_format_market_cap"
    /\ last.arg = Num(billion)
    /\ last.v = Shown(Num(1), "mrd NOK")

------------------------------------------------------------------------------
(* Properties of the currency detection and the normalization, checked
   under SpecNormalize *)

\* C24: the record returned by _get_robust_financial_metrics is not
\* modified after it is returned: normalize_financial_data works on its own
\* copy, so after normalization the record given has the fields, its issues
\* sequence included, that it was given with.
C24_GivenRecordUnchanged ==
    (last.op = "normalize_financial_data" /\ last.exc = "")
      => last.v.given = last.arg

\* a field of info that is there and not empty
Present(key) == info[key].t \notin {"absent", "none"} /\ info[key] # Str("")

\* what the five rules give, the highest rule that applies deciding
RuleCurrency ==
    IF Present("financialCurrency") THEN Upper(info["financialCurrency"].s)
    ELSE IF Present("currency") /\ Upper(info["currency"].s) = "USD" THEN "USD"
    ELSE IF \/ (IsNum(info["marketCap"]) /\ info["marketCap"].n > large_cap)
            \/ (IsNum(info["fullTimeEmployees"])
                  /\ info["fullTimeEmployees"].n > many_employees)
    THEN "USD"
    ELSE IF info["sector"].t = "str" /\ EnergyOrOil(info["sector"].s) THEN "USD"
    ELSE "NOK"

\* C28: detect_financial_currency decides by strict priority: (1) a present
\* financialCurrency is returned upper-cased whatever the other fields; (2)
\* else a trading currency equal to USD gives USD; (3) else a market cap
\* above 50e9 or more than 10 000 employees gives USD; (4) else a sector
\* naming energy or oil gives USD; (5) else NOK.
C28_DetectionPriority ==
    last.op = "detect_financial_currency"
      => last.exc = "" /\ last.v = Str(RuleCurrency)

\* the fields of the record given that the conversion changed
ConvertedFields ==
    {f \in {"ebitda_ttm", "ebitda_latest", "total_revenue_ttm",
            "total_revenue_latest"} : last.v.nd[f] # last.arg[f]}

\* the issues the call added to those the record came with
AddedIssues ==
    SubSeq(last.v.nd.data_quality_issues,
           Len(last.arg.data_quality_issues) + 1,
           Len(last.v.nd.data_quality_issues))

\* C29: normalize_financial_data appends exactly one issue, naming the
\* original currency, for each monetary field whose value was converted and
\* none for a field left unchanged; currency_conversion_applied is true
\* exactly when a conversion was applied to the values, and
\* financial_currency_detected is the detected currency.
C29_IssuePerConvertedField ==
    (last.op = "normalize_financial_data" /\ last.exc = "")
      => /\ \A f \in {"ebitda_ttm", "ebitda_latest", "total_revenue_ttm",
                      "total_revenue_latest"} :
               Cardinality({j \in 1..Len(AddedIssues) : AddedIssues[j].key = f})
                  = IF f \in ConvertedFields THEN 1 ELSE 0
         /\ \A j \in 1..Len(AddedIssues) :
               AddedIssues[j].val = Str(DetectFinancialCurrency(info).cur)
         /\ last.v.nd.currency_conversion_applied = (ConvertedFields # {})
         /\ last.v.nd.financial_currency_detected = DetectFinancialCurrency(info).cur

------------------------------------------------------------------------------
(* The tier cascade of _get_robust_financial_metrics, checked under SpecTTM *)

\* how many of the four most recent quarters of a line item are there
Quarters(key) == Cardinality({c \in 1..4 : quarterly.rows[key][c] # NaN})

\* the first alias of the quarterly table with at least two quarters, ""
\* when the table cannot be read or has none
QuarterlyAlias ==
    IF quarterly.st # "ok" \/ quarterly.ncols < 4 THEN ""
    ELSE IF "EBITDA" \in quarterly.index /\ Quarters("EBITDA") >= 2 THEN "EBITDA"
    ELSE IF "Normalized EBITDA" \in quarterly.index
            /\ Quarters("Normalized EBITDA") >= 2 THEN "Normalized EBITDA"
    ELSE ""

\* the line items of the annual table holding a figure for the latest year
AnnualFigures ==
    IF annual.st # "ok" \/ annual.ncols < 1 THEN {}
    ELSE {k \in annual.index \cap {"EBITDA", "Normalized EBITDA", "EBIT",
                                   "Operating Income"} :
             annual.rows[k][1] # NaN /\ annual.rows[k][1] # Num(0)}

\* the source of the first tier able to produce a value
FirstAbleTier ==
    IF QuarterlyAlias # ""
    THEN IF Quarters(QuarterlyAlias) = 4 THEN <<"quarterly_ttm", QuarterlyAlias>>
         ELSE <<"quarterly_estimated", QuarterlyAlias>>
    ELSE IF AnnualFigures # {}
    THEN <<"annual_financials",
           IF "EBITDA" \in AnnualFigures THEN "EBITDA"
           ELSE IF "Normalized EBITDA" \in AnnualFigures THEN "Normalized EBITDA"
           ELSE IF "EBIT" \in AnnualFigures THEN "EBIT"
           ELSE "Operating Income">>
    ELSE IF IsNum(info["ebitda"]) /\ info["ebitda"].n # 0 THEN <<"info_dict", "">>
    ELSE NoSource

\* the record returned holds an issue of this text
Recorded(kind) ==
    \E i \in 1..Len(last.v.data_quality_issues) :
       last.v.data_quality_issues[i].kind = kind

\* C25: the EBITDA tiers are attempted in the order quarterly sum, quarterly
\* estimate, annual, info dict, and the ebitda_source returned is that of
\* the first tier able to produce a value; a tier whose table raises appends
\* an issue and the next tier is still attempted, as it is after a missing
\* or empty table; when no tier succeeds ebitda_ttm and ebitda_source are
\* null.  No EBITDA tier ends the call: a call that raises does so at the
\* revenue figure of the info dict, after the EBITDA tiers.
C25_TierCascade ==
    last.op = "_get_robust_financial_metrics"
      => /\ last.exc # "" => info["totalRevenue"].t = "list"
         /\ last.v.ebitda_source = FirstAbleTier
         /\ FirstAbleTier = NoSource => IsNone(last.v.ebitda_ttm)
         /\ quarterly.st = "raise" => Recorded("Quarterly TTM calculation failed")
         /\ (annual.st = "raise" /\ QuarterlyAlias = "")
               => Recorded("Annual financials failed")


\* the series as the pass sees it on reaching position i: the points before
\* i as returned, the points from i on as given
SeenAt(i) ==
    [j \in 1..Len(last.arg) |-> IF j < i THEN last.v[j] ELSE last.arg[j]]

\* the price the pass leaves at position i
PassPrice(i) ==
    IF ~IsAnomaly(SeenAt(i), WindowSize(last.arg), i) THEN last.arg[i].price
    ELSE IF i = 1 \/ i = Len(last.arg)
    THEN Round(Median(WindowPrices(SeenAt(i), WindowSize(last.arg), i)), 2)
    ELSE Round(FDiv(FAdd(last.v[i - 1].price, last.arg[i + 1].price), Num(2)), 2)

\* C26: in the single left-to-right pass of smooth_price_anomalies an
\* anomalous first or last point gets the median of its edge-clipped
\* window, an anomalous interior point i gets the average of the returned
\* price of point i-1 and the given price of point i+1 (prices are kept to
\* 2 decimals), and no other point's price changes; for the twelve points
\* at 100 with 1000 at index 9, index 9 becomes 100 and every other price
\* stays 100.
C26_AnomalyReplacement ==
    (last.op = "smooth_price_anomalies" /\ Len(last.arg) >= min_points)
      => /\ Len(last.v) = Len(last.arg)
         /\ \A i \in 1..Len(last.arg) : last.v[i].price = PassPrice(i)
         /\ last.arg = SpikeSeries
               => \A i \in 1..Len(last.v) : last.v[i].price = Num(100)

\* the spike series was smoothed and its spike, an interior point, replaced
C26_Witness ==
    /\ last.op = "smooth_price_anomalies"
    /\ last.arg = SpikeSeries
    /\ last.arg[10].price = Num(1000)
    /\ last.v[10].price = Num(100)


\* the last call asked the sources and none of them succeeded
AllSourcesFailed ==
    /\ last.op = "get_usd_nok_rate"
    /\ last.v.attempted >= 1
    /\ FirstSuccess(last.arg) = 0

\* a call made now or later would ask the sources
WouldFetch ==
    \/ IsNone(cache.usd_nok_rate) \/ IsNone(cache.rate_timestamp)
    \/ now - cache.rate_timestamp.n >= cache_duration

\* C30: the fallback rate is never cached.  A get_usd_nok_rate call in which
\* all sources fail returns the fallback rate and leaves usd_nok_rate and
\* rate_timestamp exactly as they were (a stale cached rate is neither
\* returned nor refreshed nor cleared), so that the next call asks the
\* sources again; after any sequence of calls the cached rate, when set, is
\* a value some source returned.
C30_FallbackNeverCached ==
    /\ AllSourcesFailed
         => /\ last.v.rate = fallback_rate
            /\ cache = last.before
            /\ WouldFetch
    /\ ~IsNone(cache.usd_nok_rate)
         => /\ cache.usd_nok_rate # fallback_rate
            /\ \E srcs \in RateSources : \E i \in 1..3 :
                  srcs[i] = cache.usd_nok_rate

\* every source failed at a call made an hour or more after a refresh: the
\* fallback rate came back and the stale rate is still in the cache
C30_Witness ==
    /\ AllSourcesFailed
    /\ Refreshed /\ Age >= cache_duration
    /\ last.v.rate = fallback_rate
    /\ last.v.rate # last.before.usd_nok_rate
    /\ cache = last.before


------------------------------------------------------------------------------
(* Properties of the daily run, checked under SpecMain *)

\* every attempt of the history request failed
AllPullsFail(pulls) == \A i \in 1..history_attempts : ~pulls[i].ok

\* C22: when every retry attempt of the price-history fetch fails, the
\* failure surfaces as an absent result and not as a crash:
\* get_historical_chart_data returns an empty list without raising,
\* fetch_enhanced_stock_data then returns None, and main returns without
\* writing or modifying data/daily.json.
C22_ExhaustedRetriesAbsent ==
    /\ (last.op = "get_historical_chart_data" /\ AllPullsFail(last.arg))
         => last.v = <<>> /\ last.exc = ""
    /\ (/\ last.op = "fetch_enhanced_stock_data"
        /\ last.v.asked /\ AllPullsFail(last.arg.pulls))
         => last.v.st = "None" /\ last.exc = ""
    /\ (last.op = "main" /\ last.v.asked /\ AllPullsFail(last.arg.pulls))
         => /\ last.exc = ""
            /\ ~last.v.wrote
            /\ daily = last.before

\* a run whose history request failed three times returned and left the
\* file of the day before as it was
C22_Witness ==
    /\ last.op = "main" /\ last.v.asked /\ AllPullsFail(last.arg.pulls)
    /\ last.exc = ""
    /\ last.before = YesterdaysFile
    /\ daily = YesterdaysFile

====
